---- MODULE Spec2Model ----
(***************************************************************************)
(* Harmony-Hub: the review engagement cloud functions (likeReview,         *)
(* addComment; src/functions/src/index.ts), the client connection manager  *)
(* (src/services/firebaseConnection.ts) and the client services            *)
(* submitReview, logConcert (src/services/concertService.ts) and           *)
(* getFeedActivities (src/services/feedService.ts) as state machines.      *)
(***************************************************************************)
EXTENDS FiniteSets, Integers, Naturals, Sequences, TLC

(***************************************************************************)
(* Bounds of the model.                                                    *)
(***************************************************************************)
MaxLikeOps == 6        \* accepted likeReview calls in a behaviour of SpecLike
MaxCommentOps == 3     \* accepted addComment calls in a behaviour of SpecComment
MaxBothOps == 1        \* accepted calls of each kind in a behaviour of Spec
MaxListeners == 3      \* registrations held at a time in a behaviour of SpecListen
MaxReviewDocs == 2     \* reviews added in a behaviour of SpecReview
MaxLogCalls == 2       \* logConcert calls in a behaviour of SpecLog

Slots == {"s1", "s2"}                 \* invocations that may overlap
Users == {"u1", "u2"}
NoAuth == "<none>"                    \* context.auth is undefined
Empty == ""                           \* a falsy (missing or empty) argument
Auths == Users \cup {NoAuth}
UserArgs == Users \cup {Empty}
DocIds == {"r1", "r2"}                \* review ids a caller may name
ReviewArgs == DocIds \cup {Empty}
Whitespace == {" "}
Chars == Whitespace \cup {"a"}
\* comment texts: empty, blank, plain, padded, with an inner blank
Texts == {<<>>, <<" ">>, <<" ", " ">>, <<"a">>, <<" ", "a", " ">>, <<"a", " ", "a">>}
Free == "free"                        \* no transaction holds the document
Nil == [none |-> TRUE]

VARIABLES
  reviews,     \* reviews[r]: the review document (exists, likesCount, commentsCount)
  likedBy,     \* likedBy[r]: the ids of the documents of reviews/r/likedBy
  likeAuth,    \* ghost: likeAuth[r][u] is the caller that created likedBy record (r, u)
  comments,    \* comments[r]: the documents of reviews/r/comments in commit order
  lock,        \* lock[r]: the invocation whose transaction holds review r
  call,        \* call[c]: position and locals of invocation slot c
  opsLeft,     \* accepted calls of each kind the behaviour may still make
  last,        \* ghost: last[r] is the latest undisturbed toggle committed on r
  togglesOdd,  \* ghost: parity of the toggles committed for (r, u)
  connectionState,  \* FirebaseConnectionManager.connectionState
  initialized,      \* initializeConnection has run to its end
  mgr,              \* the manager's queue and flag, and the executeWithRetry calls
  connectionListeners,  \* FirebaseConnectionManager.connectionListeners
  notice,           \* ghost: the latest setConnectionState call and the listener calls it made
  concerts,         \* the documents of collection concerts in creation order (id = position)
  reviewDocs,       \* the review documents that submitReview added, in creation order
  submit,           \* position and locals of the submitReview call
  users,            \* users[u]: the user document (exists, loggedConcertsCount)
  artists,          \* the documents of collection artists in creation order
  venues,           \* the documents of collection venues in creation order
  log,              \* position and locals of the logConcert call
  logsLeft,         \* logConcert calls the behaviour may still make
  following,        \* following[u]: the ids of the documents of users/u/following
  feed,             \* position and locals of the getFeedActivities call
  follow,           \* position and locals of the followUser, unfollowUser or isFollowing call
  fetch,            \* position and locals of the getConcertReviews call
  search,           \* position and locals of the searchConcerts, searchArtists or searchVenues call
  debounced,        \* the closure debounce returned: its timer, the clock, and the calls so far
  finders,          \* finders[k]: position and locals of findOrCreate call k
  profile           \* the accounts, and the signUp and profile screen calls

storeVars == <<reviews, likedBy, likeAuth, comments>>
fnVars == <<reviews, likedBy, likeAuth, comments, lock, call, opsLeft, last, togglesOdd>>
lsnVars == <<connectionListeners, notice>>
connVars == <<connectionState, initialized, mgr, connectionListeners, notice>>
svcVars == <<concerts, reviewDocs, submit, users, artists, venues, log, logsLeft,
             following, feed, follow, fetch, search, debounced, finders, profile>>
feedVars == <<following, feed>>
acctVars == <<finders, profile>>
viewVars == <<follow, fetch, search, debounced, finders, profile>>
revVars == <<reviewDocs, submit>>
logVars == <<users, artists, venues, log, logsLeft>>
vars == <<reviews, likedBy, likeAuth, comments, lock, call, opsLeft, last, togglesOdd,
          connectionState, initialized, mgr, connectionListeners, notice,
          concerts, reviewDocs, submit, users, artists, venues, log, logsLeft,
          following, feed, follow, fetch, search, debounced, finders, profile>>

Max(a, b) == IF a >= b THEN a ELSE b

(***************************************************************************)
(* String helpers: a text is a sequence of characters.                     *)
(***************************************************************************)
RECURSIVE TrimStart(_)
TrimStart(s) ==
  IF s # <<>> /\ Head(s) \in Whitespace THEN TrimStart(Tail(s)) ELSE s

RECURSIVE TrimEnd(_)
TrimEnd(s) ==
  IF s # <<>> /\ s[Len(s)] \in Whitespace
  THEN TrimEnd(SubSeq(s, 1, Len(s) - 1)) ELSE s

\* String.prototype.trim
Trim(s) == TrimEnd(TrimStart(s))

(***************************************************************************)
(* Request validation of the two callable functions.                       *)
(***************************************************************************)
LikeGateNoUidCheck(auth, reviewId, userId) ==
  IF auth = NoAuth THEN "unauthenticated"
  ELSE IF reviewId = Empty \/ userId = Empty THEN "invalid-argument"
  ELSE "ok"

LikeGate(auth, reviewId, userId) ==
  IF auth = NoAuth THEN "unauthenticated"
  ELSE IF reviewId = Empty \/ userId = Empty THEN "invalid-argument"
  ELSE IF userId # auth THEN "permission-denied"
  ELSE "ok"

\* !commentText || commentText.trim().length === 0
IsBlankNoTrim(text) == text = <<>>

IsBlank(text) == text = <<>> \/ Len(Trim(text)) = 0

CommentGate(auth, reviewId, userId, text) ==
  IF auth = NoAuth THEN "unauthenticated"
  ELSE IF reviewId = Empty \/ userId = Empty \/ IsBlank(text) THEN "invalid-argument"
  ELSE IF userId # auth THEN "permission-denied"
  ELSE "ok"

(***************************************************************************)
(* Counter arithmetic of the transactions.                                 *)
(***************************************************************************)
UnlikeCount(currentLikes) == Max(0, currentLikes - 1)
LikeCount(currentLikes) == currentLikes + 1

CommentCountStale(currentComments) == currentComments

CommentCount(currentComments) == currentComments + 1

(***************************************************************************)
(* Invocation slots.                                                       *)
(***************************************************************************)
IdleCall ==
  [pc |-> "idle", kind |-> "none", auth |-> NoAuth, reviewId |-> Empty,
   userId |-> Empty, text |-> <<>>, liked |-> FALSE, cur |-> 0,
   result |-> "none", count |-> 0, undisturbed |-> TRUE, first |-> Nil]

Finished(res, n) == [IdleCall EXCEPT !.pc = "done", !.result = res, !.count = n]

\* lines 38-40, 53-55, 95-97 and 64-67, 113-116: the transaction function
\* throws not-found, runTransaction rejects, and the catch throws 'internal';
\* kind and reviewId (ghost) keep what the call was
NotFound(x) ==
  [Finished("internal", 0) EXCEPT !.kind = x.kind, !.reviewId = x.reviewId]

StorePcs == {"preread", "txnGet", "txnCommit", "postRead"}

Action(c) == IF call[c].liked THEN "unliked" ELSE "liked"

(***************************************************************************)
(* likeReview                                                              *)
(***************************************************************************)
\* lines 9-27: the checks up to the first store request
LikeReviewCall(c) ==
  /\ UNCHANGED <<connVars, svcVars>>
  /\ call[c].pc = "idle"
  /\ \E auth \in Auths, rid \in ReviewArgs, uid \in UserArgs :
       LET gate == LikeGate(auth, rid, uid) IN
       IF gate # "ok"
       THEN /\ call' = [call EXCEPT ![c] = Finished(gate, 0)]
            /\ UNCHANGED <<storeVars, lock, opsLeft, last, togglesOdd>>
       ELSE /\ opsLeft.like > 0
            /\ opsLeft' = [opsLeft EXCEPT !.like = @ - 1]
            /\ call' = [call EXCEPT ![c] =
                 [IdleCall EXCEPT !.pc = "preread", !.kind = "like",
                    !.auth = auth, !.reviewId = rid, !.userId = uid,
                    !.first = IF /\ last[rid] # Nil
                                 /\ last[rid].user = uid
                                 /\ last[rid].returned
                              THEN [action |-> last[rid].action,
                                    preCount |-> last[rid].preCount]
                              ELSE Nil]]
            /\ UNCHANGED <<storeVars, lock, last, togglesOdd>>

\* line 31: likedByRef.get(), outside any transaction
LikePreRead(c) ==
  /\ UNCHANGED <<connVars, svcVars>>
  /\ call[c].pc = "preread"
  /\ call' = [call EXCEPT ![c].liked = call[c].userId \in likedBy[call[c].reviewId],
                          ![c].pc = "txnGet"]
  /\ UNCHANGED <<storeVars, lock, opsLeft, last, togglesOdd>>

LikeTxnGetUnchecked(c) ==
  /\ UNCHANGED <<connVars, svcVars>>
  /\ call[c].pc = "txnGet"
  /\ call[c].kind = "like"
  /\ LET r == call[c].reviewId IN
     /\ lock[r] = Free
     /\ call' = [call EXCEPT ![c].cur = reviews[r].likesCount,
                             ![c].pc = "txnCommit"]
     /\ lock' = [lock EXCEPT ![r] = c]
  /\ UNCHANGED <<storeVars, opsLeft, last, togglesOdd>>

\* lines 36-42 and 51-57: transaction.get(reviewRef) and the not-found check
LikeTxnGet(c) ==
  /\ UNCHANGED <<connVars, svcVars>>
  /\ call[c].pc = "txnGet"
  /\ call[c].kind = "like"
  /\ LET r == call[c].reviewId IN
     /\ lock[r] = Free
     /\ IF ~reviews[r].exists
        THEN /\ call' = [call EXCEPT ![c] = NotFound(call[c])]
             /\ UNCHANGED lock
        ELSE /\ call' = [call EXCEPT ![c].cur = reviews[r].likesCount,
                                     ![c].pc = "txnCommit"]
             /\ lock' = [lock EXCEPT ![r] = c]
  /\ UNCHANGED <<storeVars, opsLeft, last, togglesOdd>>

\* lines 43-44 and 58-59: the writes of the transaction, committed together
LikeTxnCommit(c) ==
  /\ UNCHANGED <<connVars, svcVars>>
  /\ call[c].pc = "txnCommit"
  /\ call[c].kind = "like"
  /\ LET r == call[c].reviewId
         u == call[c].userId
     IN
     /\ reviews' = [reviews EXCEPT ![r].likesCount =
                      IF call[c].liked THEN UnlikeCount(call[c].cur)
                                       ELSE LikeCount(call[c].cur)]
     /\ likedBy' = [likedBy EXCEPT ![r] =
                      IF call[c].liked THEN @ \ {u} ELSE @ \cup {u}]
     /\ likeAuth' = [likeAuth EXCEPT ![r][u] =
                      IF call[c].liked THEN NoAuth ELSE call[c].auth]
     /\ lock' = [lock EXCEPT ![r] = Free]
     /\ call' = [d \in Slots |->
                  IF d = c THEN [call[c] EXCEPT !.pc = "postRead"]
                  ELSE IF call[d].kind = "like" /\ call[d].reviewId = r
                            /\ call[d].pc \in StorePcs
                       THEN [call[d] EXCEPT !.undisturbed = FALSE]
                       ELSE call[d]]
     /\ last' = [last EXCEPT ![r] =
                  IF call[c].undisturbed
                  THEN [user |-> u, action |-> Action(c),
                        preCount |-> reviews[r].likesCount,
                        slot |-> c, returned |-> FALSE]
                  ELSE Nil]
     /\ togglesOdd' = [togglesOdd EXCEPT ![r][u] = ~@]
  /\ UNCHANGED <<comments, opsLeft>>

\* lines 47 and 62, 119-123: getLikesCount and the response
LikePostRead(c) ==
  /\ UNCHANGED <<connVars, svcVars>>
  /\ call[c].pc = "postRead"
  /\ LET r == call[c].reviewId IN
     /\ call' = [call EXCEPT ![c] =
          [Finished(Action(c), reviews[r].likesCount) EXCEPT
             !.kind = "like", !.reviewId = r, !.userId = call[c].userId,
             !.undisturbed = call[c].undisturbed, !.first = call[c].first]]
     /\ last' = [last EXCEPT ![r] =
                  IF @ # Nil /\ @.slot = c THEN [@ EXCEPT !.returned = TRUE] ELSE @]
  /\ UNCHANGED <<storeVars, lock, opsLeft, togglesOdd>>

(***************************************************************************)
(* addComment                                                              *)
(***************************************************************************)
\* lines 71-88
AddCommentCall(c) ==
  /\ UNCHANGED <<connVars, svcVars>>
  /\ call[c].pc = "idle"
  /\ \E auth \in Auths, rid \in ReviewArgs, uid \in UserArgs, text \in Texts :
       LET gate == CommentGate(auth, rid, uid, text) IN
       IF gate # "ok"
       THEN /\ call' = [call EXCEPT ![c] =
                 [Finished(gate, 0) EXCEPT !.kind = "comment", !.text = text]]
            /\ UNCHANGED <<storeVars, lock, opsLeft, last, togglesOdd>>
       ELSE /\ opsLeft.comment > 0
            /\ opsLeft' = [opsLeft EXCEPT !.comment = @ - 1]
            /\ call' = [call EXCEPT ![c] =
                 [IdleCall EXCEPT !.pc = "txnGet", !.kind = "comment",
                    !.auth = auth, !.reviewId = rid, !.userId = uid,
                    !.text = text]]
            /\ UNCHANGED <<storeVars, lock, last, togglesOdd>>

\* lines 93-97
CommentTxnGet(c) ==
  /\ UNCHANGED <<connVars, svcVars>>
  /\ call[c].pc = "txnGet"
  /\ call[c].kind = "comment"
  /\ LET r == call[c].reviewId IN
     /\ lock[r] = Free
     /\ IF ~reviews[r].exists
        THEN /\ call' = [call EXCEPT ![c] = NotFound(call[c])]
             /\ UNCHANGED lock
        ELSE /\ call' = [call EXCEPT ![c].cur = reviews[r].commentsCount,
                                     ![c].pc = "txnCommit"]
             /\ lock' = [lock EXCEPT ![r] = c]
  /\ UNCHANGED <<storeVars, opsLeft, last, togglesOdd>>

\* lines 99-112
CommentTxnCommit(c) ==
  /\ UNCHANGED <<connVars, svcVars>>
  /\ call[c].pc = "txnCommit"
  /\ call[c].kind = "comment"
  /\ LET r == call[c].reviewId IN
     /\ comments' = [comments EXCEPT ![r] =
                      Append(@, [userRef |-> call[c].userId,
                                 text |-> Trim(call[c].text),
                                 by |-> call[c].auth])]
     /\ reviews' = [reviews EXCEPT ![r].commentsCount = CommentCount(call[c].cur)]
     /\ lock' = [lock EXCEPT ![r] = Free]
     /\ call' = [call EXCEPT ![c] =
          [Finished("success", 0) EXCEPT !.kind = "comment", !.reviewId = r]]
  /\ UNCHANGED <<likedBy, likeAuth, opsLeft, last, togglesOdd>>

(***************************************************************************)
(* Both functions                                                          *)
(***************************************************************************)
\* lines 64-67 and 113-116: a store request of the call fails; a transaction
\* in progress is rolled back
StoreFailure(c) ==
  /\ UNCHANGED <<connVars, svcVars>>
  /\ call[c].pc \in StorePcs
  /\ call' = [call EXCEPT ![c] = Finished("internal", 0)]
  /\ lock' = [r \in DocIds |-> IF lock[r] = c THEN Free ELSE lock[r]]
  /\ last' = [r \in DocIds |->
               IF last[r] # Nil /\ last[r].slot = c /\ ~last[r].returned
               THEN Nil ELSE last[r]]
  /\ UNCHANGED <<storeVars, opsLeft, togglesOdd>>

\* the response has been delivered; the slot serves the next invocation
Return(c) ==
  /\ UNCHANGED <<connVars, svcVars>>
  /\ call[c].pc = "done"
  /\ call' = [call EXCEPT ![c] = IdleCall]
  /\ UNCHANGED <<storeVars, lock, opsLeft, last, togglesOdd>>

(***************************************************************************)
(* Connection manager (src/services/firebaseConnection.ts)                 *)
(***************************************************************************)
maxRetries == 3
retryDelay == 1000   \* milliseconds
NestedCalls == 2     \* executeWithRetry calls made by the logConcert operation itself

\* the executeWithRetry calls of the application: two, so that the queue can
\* hold two operations; call c + 2 is the call made by the operation of call c
TopCalls == {1, 2}
Inner(c) == c + Cardinality(TopCalls)
Parent(i) == i - Cardinality(TopCalls)
IsInner(i) == i \notin TopCalls
CallIds == TopCalls \cup {Inner(c) : c \in TopCalls}

S_unavailable == <<"u","n","a","v","a","i","l","a","b","l","e">>
S_deadline_exceeded ==
  <<"d","e","a","d","l","i","n","e","-","e","x","c","e","e","d","e","d">>
S_cancelled == <<"c","a","n","c","e","l","l","e","d">>
S_failed_precondition ==
  <<"f","a","i","l","e","d","-","p","r","e","c","o","n","d","i","t","i","o","n">>
S_offline == <<"o","f","f","l","i","n","e">>
S_network == <<"n","e","t","w","o","r","k">>
S_connection == <<"c","o","n","n","e","c","t","i","o","n">>

UpperCase ==
  <<"A","B","C","D","E","F","G","H","I","J","K","L","M",
    "N","O","P","Q","R","S","T","U","V","W","X","Y","Z">>
LowerCase ==
  <<"a","b","c","d","e","f","g","h","i","j","k","l","m",
    "n","o","p","q","r","s","t","u","v","w","x","y","z">>

\* String.prototype.toLowerCase
ToLowerCase(s) ==
  [i \in 1..Len(s) |->
     IF \E k \in 1..Len(UpperCase) : UpperCase[k] = s[i]
     THEN LowerCase[CHOOSE k \in 1..Len(UpperCase) : UpperCase[k] = s[i]]
     ELSE s[i]]

\* String.prototype.includes
Includes(s, sub) ==
  \E i \in 0..(Len(s) - Len(sub)) : SubSeq(s, i + 1, i + Len(sub)) = sub

\* errors an operation may throw: code and message
Err ==
  [unavailable |-> [code |-> S_unavailable, message |-> <<>>],
   offline     |-> [code |-> <<>>,
                    message |-> <<"C","l","i","e","n","t"," ","i","s"," ",
                                  "O","f","f","l","i","n","e">>],
   denied      |-> [code |-> <<"p","e","r","m","i","s","s","i","o","n","-",
                               "d","e","n","i","e","d">>,
                    message |-> <<"M","i","s","s","i","n","g"," ",
                                  "p","e","r","m","i","s","s","i","o","n","s">>]]
ErrorIds == DOMAIN Err
Outcomes == {"ok"} \cup ErrorIds
\* a store request that succeeds or throws one of the errors, or an operation
\* like that of logConcert, whose own executeWithRetry calls succeed or fail
TopOps ==
  [kind : {"leaf"}, out : Outcomes] \cup [kind : {"nested"}, out : {"ok", "unavailable"}]

networkErrorCodes ==
  {S_unavailable, S_deadline_exceeded, S_cancelled, S_failed_precondition}

IsNetworkErrorNever(error) == FALSE

IsNetworkError(error) ==
  LET errorMessage == ToLowerCase(error.message)
      errorCode == ToLowerCase(error.code)
  IN \/ \E code \in networkErrorCodes : Includes(errorCode, code)
     \/ Includes(errorMessage, S_offline)
     \/ Includes(errorMessage, S_network)
     \/ Includes(errorMessage, S_connection)

\* an executeWithRetry call: position, operation, loop counter, and (ghost) the
\* number of invocations of the operation, whether every attempt found the
\* state connected, the delays the call has awaited, in milliseconds, and the
\* number of times processRetryQueue has run the closure of the call
NewCall(op, conn) ==
  [pc |-> "idle", op |-> op, attempt |-> 1, invocations |-> 0, error |-> "none",
   step |-> 1, firstConnected |-> conn = "connected", allConnected |-> TRUE,
   waits |-> <<>>, replayed |-> 0]

NoCall == NewCall([kind |-> "leaf", out |-> "ok"], "connecting")

SettledPcs == {"resolved", "rejected"}

\* lines 111-120: this.retryQueue.push(closure)
Enqueue(m, c) ==
  [m EXCEPT !.retryQueue = Append(@, [id |-> c, ticket |-> m.ticket]),
            !.ticket = @ + 1,
            !.ex[c].pc = "queued",
            !.ex[c].allConnected = FALSE]

RECURSIVE Attempt(_, _, _)
RECURSIVE InvokeOp(_, _, _)
RECURSIVE StartInner(_, _, _, _)
RECURSIVE Settle(_, _, _, _)
RECURSIVE DirectSettle(_, _, _, _)
RECURSIVE ReplaySettle(_, _, _, _)
RECURSIVE ReplaySettleRetrying(_, _, _, _)
RECURSIVE Drain(_, _)

\* lines 104-121: one iteration of the retry loop up to its await
Attempt(m, c, conn) ==
  IF conn = "connected"
  THEN InvokeOp([m EXCEPT !.ex[c].pc = "running"], c, conn)
  ELSE Enqueue(m, c)

\* operation(): a store request, or (logConcert, concertService.ts 81-84) a
\* function whose first statement awaits an executeWithRetry call of its own
InvokeOp(m, c, conn) ==
  LET m1 == [m EXCEPT !.ex[c].invocations = @ + 1] IN
  IF m.ex[c].op.kind = "nested" THEN StartInner(m1, c, 1, conn) ELSE m1

\* concertService.ts 83-84: findOrCreateArtist, then findOrCreateVenue
StartInner(m, c, k, conn) ==
  Attempt([m EXCEPT !.ex[Inner(c)] =
             [NewCall([kind |-> "leaf", out |-> m.ex[c].op.out], conn)
                EXCEPT !.step = k]],
          Inner(c), conn)

\* Array.prototype.shift
Shift(q) == [head |-> Head(q), rest |-> Tail(q)]

\* lines 168-179: the loop of processRetryQueue from its condition to its await
Drain(m, conn) ==
  IF m.retryQueue # <<>> /\ conn = "connected"
  THEN LET s == Shift(m.retryQueue) IN
       InvokeOp([m EXCEPT !.retryQueue = s.rest,
                          !.ex[s.head.id].pc = "replaying",
                          !.ex[s.head.id].replayed = @ + 1,
                          !.draining = @ \cup {s.head.id},
                          !.lastStarted = s.head.ticket],
                s.head.id, conn)
  ELSE [m EXCEPT !.isRetrying = FALSE]

ProcessRetryQueueUnguarded(m, conn) ==
  IF conn # "connected" THEN m ELSE Drain([m EXCEPT !.isRetrying = TRUE], conn)

\* lines 161-166
ProcessRetryQueue(m, conn) ==
  IF m.isRetrying \/ conn # "connected"
  THEN m
  ELSE Drain([m EXCEPT !.isRetrying = TRUE], conn)

\* the promise of call c settles; the operation that awaits it resumes
Settle(m, c, out, conn) ==
  LET m1 == [m EXCEPT !.ex[c].pc = IF out = "ok" THEN "resolved" ELSE "rejected",
                      !.ex[c].error = out]
  IN IF ~IsInner(c) THEN m1
     ELSE LET p == Parent(c) IN
          IF out = "ok" /\ m1.ex[c].step < NestedCalls
          THEN StartInner(m1, p, m1.ex[c].step + 1, conn)
          ELSE IF m1.ex[p].pc = "running"
               THEN DirectSettle(m1, p, out, conn)
               ELSE ReplaySettle(m1, p, out, conn)

BackoffFlat(attempt) == retryDelay

\* line 131: this.delay(this.retryDelay * attempt)
Backoff(attempt) == retryDelay * attempt

\* lines 107-108 and 122-141: the awaited operation of a direct attempt settles
DirectSettle(m, c, out, conn) ==
  IF out = "ok" THEN Settle(m, c, out, conn)
  ELSE IF IsNetworkError(Err[out]) /\ m.ex[c].attempt < maxRetries
       THEN [m EXCEPT !.ex[c].pc = "backoff", !.ex[c].error = out,
                      !.ex[c].waits = Append(@, Backoff(m.ex[c].attempt))]
       ELSE Settle(m, c, out, conn)

ReplaySettleRetrying(m, c, out, conn) ==
  LET m1 == DirectSettle(m, c, out, conn) IN
  Drain([m1 EXCEPT !.draining = @ \ {c}], conn)

\* lines 112-119 and 171-177: the operation of a replayed closure settles, and
\* the loop of processRetryQueue goes on
ReplaySettle(m, c, out, conn) ==
  LET m1 == Settle(m, c, out, conn) IN
  Drain([m1 EXCEPT !.draining = @ \ {c}], conn)

\* lines 98-121: the application calls executeWithRetry(operation)
ExecuteWithRetry(c) ==
  /\ UNCHANGED <<fnVars, svcVars>>
  /\ c \in TopCalls
  /\ mgr.ex[c].pc = "idle"
  /\ \A d \in TopCalls : d < c => mgr.ex[d].pc # "idle"    \* calls are numbered as made
  /\ \E op \in TopOps :
       mgr' = Attempt([mgr EXCEPT !.ex[c] = NewCall(op, connectionState)],
                      c, connectionState)
  /\ UNCHANGED <<connectionState, initialized, lsnVars>>

\* the store request of a direct attempt completes
OpSettles(c) ==
  /\ UNCHANGED <<fnVars, svcVars>>
  /\ mgr.ex[c].pc = "running"
  /\ mgr.ex[c].op.kind = "leaf"
  /\ mgr' = DirectSettle(mgr, c, mgr.ex[c].op.out, connectionState)
  /\ UNCHANGED <<connectionState, initialized, lsnVars>>

\* the store request of a replayed closure completes
ReplaySettles(c) ==
  /\ UNCHANGED <<fnVars, svcVars>>
  /\ mgr.ex[c].pc = "replaying"
  /\ mgr.ex[c].op.kind = "leaf"
  /\ mgr' = ReplaySettle(mgr, c, mgr.ex[c].op.out, connectionState)
  /\ UNCHANGED <<connectionState, initialized, lsnVars>>

\* lines 129-133: the delay ends and the loop continues
BackoffEnds(c) ==
  /\ UNCHANGED <<fnVars, svcVars>>
  /\ mgr.ex[c].pc = "backoff"
  /\ mgr' = Attempt([mgr EXCEPT !.ex[c].attempt = @ + 1], c, connectionState)
  /\ UNCHANGED <<connectionState, initialized, lsnVars>>

(***************************************************************************)
(* Listeners (lines 13, 65-96).  A listener is a function of the           *)
(* application; called with a state it returns, throws, or calls the       *)
(* unsubscribe function that its registration returned.                    *)
(***************************************************************************)
Listeners == {"l1", "l2"}
Behaviours == {"returns", "throws", "unsubscribes"}

Range(q) == {q[i] : i \in 1..Len(q)}

\* Array.prototype.indexOf, 1-based; 0 when absent
IndexOf(q, x) ==
  IF x \in Range(q) THEN CHOOSE i \in 1..Len(q) : q[i] = x /\ \A j \in 1..(i - 1) : q[j] # x
  ELSE 0

\* Array.prototype.splice(index, 1)
Splice(q, i) == SubSeq(q, 1, i - 1) \o SubSeq(q, i + 1, Len(q))

\* lines 90-95: the function that onConnectionStateChange(listener) returns
Unsubscribed(q, listener) ==
  LET index == IndexOf(q, listener) IN
  IF index > 0 THEN Splice(q, index) ELSE q

\* lines 67-73: Array.prototype.forEach visits the indices below the length
\* the array had at the start that the array still has when their turn comes;
\* an error of a listener is caught and logged
RECURSIVE ForEach(_, _, _, _, _, _)
ForEach(q, i, len, state, beh, calls) ==
  IF i > len \/ i > Len(q) THEN [listeners |-> q, calls |-> calls]
  ELSE LET listener == q[i]
           does == beh[listener]
           q1 == IF does = "unsubscribes" THEN Unsubscribed(q, listener) ELSE q
       IN ForEach(q1, i + 1, len, state, beh,
                  Append(calls, [listener |-> listener, state |-> state, does |-> does]))

\* lines 65-73: setConnectionState(state)
SetConnectionState(state) ==
  \E beh \in [Range(connectionListeners) -> Behaviours] :
    LET r == ForEach(connectionListeners, 1, Len(connectionListeners), state, beh, <<>>)
    IN /\ connectionState' = state
       /\ connectionListeners' = r.listeners
       /\ notice' = [state |-> state, before |-> connectionListeners, calls |-> r.calls]

\* lines 88-89: onConnectionStateChange(listener)
OnConnectionStateChange(listener) ==
  /\ UNCHANGED <<fnVars, svcVars>>
  /\ Len(connectionListeners) < MaxListeners
  /\ connectionListeners' = Append(connectionListeners, listener)
  /\ UNCHANGED <<connectionState, initialized, mgr, notice>>

\* lines 90-95: the application calls the function a registration returned
Unsubscribe(listener) ==
  /\ UNCHANGED <<fnVars, svcVars>>
  /\ listener \in Range(connectionListeners)
  /\ connectionListeners' = Unsubscribed(connectionListeners, listener)
  /\ UNCHANGED <<connectionState, initialized, mgr, notice>>

\* lines 19-42
InitializeOk ==
  /\ UNCHANGED <<fnVars, svcVars>>
  /\ ~initialized
  /\ initialized' = TRUE
  /\ SetConnectionState("connected")
  /\ mgr' = ProcessRetryQueue(mgr, "connected")

\* lines 43-46
InitializeFail ==
  /\ UNCHANGED <<fnVars, svcVars>>
  /\ ~initialized
  /\ initialized' = TRUE
  /\ SetConnectionState("error")
  /\ UNCHANGED mgr

\* lines 186-189 (when disableNetwork throws, lines 190-192, nothing changes)
Disconnect ==
  /\ UNCHANGED <<fnVars, svcVars>>
  /\ SetConnectionState("disconnected")
  /\ UNCHANGED <<initialized, mgr>>

\* lines 195-199
ReconnectOk ==
  /\ UNCHANGED <<fnVars, svcVars>>
  /\ SetConnectionState("connected")
  /\ mgr' = ProcessRetryQueue(mgr, "connected")
  /\ UNCHANGED initialized

\* lines 200-203
ReconnectFail ==
  /\ UNCHANGED <<fnVars, svcVars>>
  /\ SetConnectionState("error")
  /\ UNCHANGED <<initialized, mgr>>

(***************************************************************************)
(* Client services (src/services/concertService.ts).  A document path is   *)
(* a sequence of characters.                                               *)
(***************************************************************************)
\* two ids, one a suffix of the other
UserIds == {<<"b">>, <<"a", "b">>}
Ratings == {1, 5}
S_users == <<"u", "s", "e", "r", "s">>

\* doc(db, collection, id).path
DocPath(col, id) == col \o <<"/">> \o id

\* String.prototype.endsWith
EndsWith(str, suffix) ==
  /\ Len(suffix) <= Len(str)
  /\ SubSeq(str, Len(str) - Len(suffix) + 1, Len(str)) = suffix

\* concert ids a caller may name: those of the store and one of no document
ConcertIds == 1..(Len(concerts) + 1)

ReviewRatingAsGiven(concert, userId, rating) == rating

\* line 207
ReviewRating(concert, userId, rating) ==
  IF EndsWith(concert.userRef, userId) THEN concert.rating ELSE rating

ReviewTextAsGiven(text) == text

\* line 212: text.trim()
ReviewText(text) == Trim(text)

IdleSubmit == [pc |-> "idle"]

\* lines 193-199: the locals of a call; before (ghost) is the reviews
\* collection when the call was made
NewSubmit(concertId, userId, rating, text) ==
  [pc |-> "getConcert", concertId |-> concertId, userId |-> userId,
   rating |-> rating, text |-> text, before |-> reviewDocs]

\* ConcertDetailScreen.tsx 147: the rating argument of the review form
FormRating == 0

\* lines 193-201: submitReview(concertId, userId, rating, text) is called
SubmitReview ==
  /\ UNCHANGED <<fnVars, connVars>>
  /\ submit.pc = "idle"
  /\ Len(reviewDocs) < MaxReviewDocs
  /\ \E concertId \in ConcertIds, userId \in UserIds, rating \in Ratings, text \in Texts :
       submit' = NewSubmit(concertId, userId, rating, text)
  /\ UNCHANGED <<concerts, reviewDocs, logVars, feedVars, viewVars>>

\* ConcertDetailScreen.tsx 139-147: the review form of the screen of a
\* concert is submitted by a signed-in user with a text that is not blank
HandleSubmitReview ==
  /\ UNCHANGED <<fnVars, connVars>>
  /\ submit.pc = "idle"
  /\ Len(reviewDocs) < MaxReviewDocs
  /\ \E concertId \in 1..Len(concerts), user \in UserIds, reviewText \in Texts :
       /\ Trim(reviewText) # <<>>
       /\ submit' = NewSubmit(concertId, user, FormRating, reviewText)
  /\ UNCHANGED <<concerts, reviewDocs, logVars, feedVars, viewVars>>

\* lines 172-207: getConcertById answers; null makes submitReview throw
SubmitGetConcert ==
  /\ UNCHANGED <<fnVars, connVars>>
  /\ submit.pc = "getConcert"
  /\ IF submit.concertId \in 1..Len(concerts)
     THEN submit' = [submit EXCEPT
                       !.pc = "addDoc",
                       !.rating = ReviewRating(concerts[submit.concertId],
                                               submit.userId, submit.rating)]
                     @@ [given |-> submit.rating]
     ELSE submit' = [pc |-> "done", result |-> "rejected", error |-> "Concert not found",
                     concertId |-> submit.concertId, before |-> submit.before]
  /\ UNCHANGED <<concerts, reviewDocs, logVars, feedVars, viewVars>>

\* lines 209-221: addDoc(collection(db, 'reviews'), reviewData) succeeds
SubmitAddDoc ==
  /\ UNCHANGED <<fnVars, connVars>>
  /\ submit.pc = "addDoc"
  /\ reviewDocs' = Append(reviewDocs,
                          [concertRef |-> submit.concertId,
                           userRef |-> DocPath(S_users, submit.userId),
                           text |-> ReviewText(submit.text),
                           rating |-> submit.rating,
                           createdAt |-> Len(reviewDocs) + 1,
                           likesCount |-> 0,
                           commentsCount |-> 0])
  /\ submit' = [pc |-> "done", result |-> "resolved", id |-> Len(reviewDocs) + 1,
                concertId |-> submit.concertId, userId |-> submit.userId,
                given |-> submit.given, text |-> submit.text, before |-> submit.before]
  /\ UNCHANGED <<concerts, logVars, feedVars, viewVars>>

\* lines 186-189, 222-225: a store request throws and the error is rethrown
SubmitFails ==
  /\ UNCHANGED <<fnVars, connVars>>
  /\ submit.pc \in {"getConcert", "addDoc"}
  /\ submit' = [pc |-> "done", result |-> "rejected", error |-> "store",
                concertId |-> submit.concertId, before |-> submit.before]
  /\ UNCHANGED <<concerts, reviewDocs, logVars, feedVars, viewVars>>

\* the caller has the result
SubmitReturn ==
  /\ UNCHANGED <<fnVars, connVars>>
  /\ submit.pc = "done"
  /\ submit' = IdleSubmit
  /\ UNCHANGED <<concerts, reviewDocs, logVars, feedVars, viewVars>>

(***************************************************************************)
(* logConcert (concertService.ts 25-110) while the manager is connected:   *)
(* the operation of the outer executeWithRetry awaits findOrCreateArtist   *)
(* and findOrCreateVenue, each an executeWithRetry of its own, then writes *)
(* the concert, increments the counter and logs the analytics event.       *)
(***************************************************************************)
ArtistNames == {"The Band", "the band"}
VenueNames == {"The Venue", "the venue"}
\* a store request succeeds or throws an error of Err
StoreOutcomes == {"ok", "unavailable", "denied"}

IdleLog == [pc |-> "idle"]

\* lines 73-81: the locals of a call; created and increments (ghost) are the
\* concerts the call has written and the increments it has made, fresh (ghost)
\* tells that the call began on a store without artists, venues and concerts;
\* outage (ghost) tells that every store request of the call so far has failed
\* with a transient error, and lookups (ghost) counts the artist queries
\* issued during the outage
NewLog(userId, artistName, venueName, rating) ==
  [pc |-> "start", userId |-> userId, artistName |-> artistName,
   venueName |-> venueName, rating |-> rating, attempt |-> 1, inner |-> 1,
   stage |-> "artist", artistRef |-> 0, venueRef |-> 0, concertId |-> 0,
   created |-> <<>>, increments |-> 0,
   fresh |-> (artists = <<>> /\ venues = <<>> /\ concerts = <<>>
              /\ users[userId].loggedConcertsCount = 0),
   result |-> "none", error |-> "none", sink |-> "none",
   outage |-> TRUE, lookups |-> 0]

\* lines 81-83: operation() begins: findOrCreateArtist issues its query
StartOp(l) ==
  [l EXCEPT !.pc = "query", !.stage = "artist", !.inner = 1,
            !.artistRef = 0, !.venueRef = 0, !.concertId = 0]

MatchesNone(col, name) == {}

\* lines 28-29, 51-52: the documents whose name equals the name asked for
Matches(col, name) == {i \in 1..Len(col) : col[i].name = name}

\* lines 33, 42, 56, 68: findOrCreateArtist or findOrCreateVenue resolves
Found(l, ref) ==
  IF l.stage = "artist"
  THEN [l EXCEPT !.artistRef = ref, !.stage = "venue", !.pc = "query", !.inner = 1]
  ELSE [l EXCEPT !.venueRef = ref, !.pc = "concertAdd"]

\* firebaseConnection.ts 122-141 for the outer call (concertService.ts 81, 109)
OuterFail(l, out) ==
  IF IsNetworkError(Err[out]) /\ l.attempt < maxRetries
  THEN [l EXCEPT !.pc = "backoff"]
  ELSE [l EXCEPT !.pc = "done", !.result = "rejected", !.error = out]

\* firebaseConnection.ts 122-141 for the inner call (concertService.ts 26, 48);
\* when it rejects, the operation of the outer call throws the error
InnerFail(l, out) ==
  IF IsNetworkError(Err[out]) /\ l.inner < maxRetries
  THEN [l EXCEPT !.pc = "innerBackoff"]
  ELSE OuterFail(l, out)

\* lines 73-83: logConcert(userId, artistName, venueName, date, rating, notes)
LogConcert ==
  /\ UNCHANGED <<fnVars, connVars, revVars, feedVars, viewVars>>
  /\ log.pc = "idle"
  /\ logsLeft > 0
  /\ connectionState = "connected"
  /\ \E userId \in UserIds, artistName \in ArtistNames, venueName \in VenueNames,
        rating \in Ratings :
       log' = StartOp(NewLog(userId, artistName, venueName, rating))
  /\ logsLeft' = logsLeft - 1
  /\ UNCHANGED <<concerts, users, artists, venues>>

\* the ghosts outage and lookups after a store request with outcome out: in
\* an outage the artist query is the only request a call gets to issue
Requested(l, out) ==
  IF l.outage /\ out # "ok" /\ IsNetworkError(Err[out])
  THEN [l EXCEPT !.lookups = @ + 1]
  ELSE [l EXCEPT !.outage = FALSE, !.lookups = 0]

\* lines 28-34, 51-57: getDocs(q) answers or throws
FindOrCreateQuery ==
  /\ UNCHANGED <<fnVars, connVars, revVars, feedVars, viewVars>>
  /\ log.pc = "query"
  /\ \E out \in StoreOutcomes :
       LET l == Requested(log, out)
           m == IF log.stage = "artist" THEN Matches(artists, log.artistName)
                ELSE Matches(venues, log.venueName)
       IN IF out # "ok" THEN log' = InnerFail(l, out)
          ELSE IF m = {} THEN log' = [l EXCEPT !.pc = "add"]
          ELSE \E i \in m : log' = Found(l, i)
  /\ UNCHANGED <<concerts, users, artists, venues, logsLeft>>

\* lines 36-42, 59-68: addDoc of the new artist or venue answers or throws
FindOrCreateAdd ==
  /\ UNCHANGED <<fnVars, connVars, revVars, feedVars, viewVars>>
  /\ log.pc = "add"
  /\ \E out \in StoreOutcomes :
       IF out # "ok"
       THEN log' = InnerFail(log, out) /\ UNCHANGED <<artists, venues>>
       ELSE IF log.stage = "artist"
       THEN /\ artists' = Append(artists, [name |-> log.artistName])
            /\ log' = Found(log, Len(artists) + 1)
            /\ UNCHANGED venues
       ELSE /\ venues' = Append(venues, [name |-> log.venueName, city |-> "Unknown",
                                         state |-> "Unknown", country |-> "Unknown"])
            /\ log' = Found(log, Len(venues) + 1)
            /\ UNCHANGED artists
  /\ UNCHANGED <<concerts, users, logsLeft>>

\* firebaseConnection.ts 129-133, 104-107: the delay of the inner call ends
FindOrCreateBackoffEnds ==
  /\ UNCHANGED <<fnVars, connVars, revVars, feedVars, viewVars>>
  /\ log.pc = "innerBackoff"
  /\ connectionState = "connected"
  /\ log' = [log EXCEPT !.pc = "query", !.inner = @ + 1]
  /\ UNCHANGED <<concerts, users, artists, venues, logsLeft>>

\* lines 87-98: addDoc(collection(db, 'concerts'), concertData) answers or
\* throws; logged (ghost) keeps the names the concert was logged with;
\* createdAt is the client's clock, later for each later document
ConcertAddDoc ==
  /\ UNCHANGED <<fnVars, connVars, revVars, feedVars, viewVars>>
  /\ log.pc = "concertAdd"
  /\ \E out \in StoreOutcomes :
       IF out # "ok"
       THEN log' = OuterFail(log, out) /\ UNCHANGED concerts
       ELSE /\ concerts' = Append(concerts,
                                  [artistRef |-> log.artistRef,
                                   venueRef |-> log.venueRef,
                                   userRef |-> DocPath(S_users, log.userId),
                                   rating |-> log.rating,
                                   createdAt |-> Len(concerts) + 1,
                                   logged |-> [artistName |-> log.artistName,
                                               venueName |-> log.venueName]])
            /\ log' = [log EXCEPT !.pc = "counterUpdate",
                                  !.concertId = Len(concerts) + 1,
                                  !.created = Append(@, Len(concerts) + 1)]
  /\ UNCHANGED <<users, artists, venues, logsLeft>>

\* lines 101-103: updateDoc(user, {loggedConcertsCount: increment(1)}); updateDoc
\* of a document that does not exist throws not-found, which is no network error
CounterUpdateDoc ==
  /\ UNCHANGED <<fnVars, connVars, revVars, feedVars, viewVars>>
  /\ log.pc = "counterUpdate"
  /\ \E out \in StoreOutcomes :
       IF out # "ok"
       THEN log' = OuterFail(log, out) /\ UNCHANGED users
       ELSE IF ~users[log.userId].exists
       THEN /\ log' = [log EXCEPT !.pc = "done", !.result = "rejected",
                                  !.error = "not-found"]
            /\ UNCHANGED users
       ELSE /\ users' = [users EXCEPT ![log.userId].loggedConcertsCount = @ + 1]
            /\ log' = [log EXCEPT !.pc = "analytics", !.increments = @ + 1]
  /\ UNCHANGED <<concerts, artists, venues, logsLeft>>

\* the analytics sink: null (part_000 53), or one whose logEvent logs or throws
Sinks == {"absent", "logs", "throws"}

\* analyticsService.ts 43-45: the try block: logEvent is called when there
\* is a sink
TryLogEvent(sink) ==
  IF sink # "absent"
  THEN (IF sink = "throws" THEN "thrown" ELSE "returned")
  ELSE "returned"

LogAnalyticsEventRaises(sink) ==
  IF TryLogEvent(sink) = "thrown" THEN "rejected" ELSE "resolved"

\* analyticsService.ts 38-50: the catch warns and the promise resolves
LogAnalyticsEvent(sink) ==
  IF TryLogEvent(sink) = "thrown" THEN "resolved" ELSE "resolved"

\* lines 106-108, analyticsService.ts 98-104: await logConcertLogged(...);
\* when it resolves the operation returns the id and the call resolves, and
\* an error it raised would be thrown by the operation; sink (ghost) is the
\* sink the step met
AnalyticsLogged ==
  /\ UNCHANGED <<fnVars, connVars, revVars, feedVars, viewVars>>
  /\ log.pc = "analytics"
  /\ \E sink \in Sinks :
       LET l == [log EXCEPT !.sink = sink] IN
       IF LogAnalyticsEvent(sink) = "resolved"
       THEN log' = [l EXCEPT !.pc = "done", !.result = "resolved"]
       ELSE \E out \in StoreOutcomes \ {"ok"} : log' = OuterFail(l, out)
  /\ UNCHANGED <<concerts, users, artists, venues, logsLeft>>

\* firebaseConnection.ts 129-133, 104-107: the delay of the outer call ends
\* and the operation is invoked again
LogBackoffEnds ==
  /\ UNCHANGED <<fnVars, connVars, revVars, feedVars, viewVars>>
  /\ log.pc = "backoff"
  /\ connectionState = "connected"
  /\ log' = StartOp([log EXCEPT !.attempt = @ + 1])
  /\ UNCHANGED <<concerts, users, artists, venues, logsLeft>>

\* the caller has the result
LogReturn ==
  /\ UNCHANGED <<fnVars, connVars, revVars, feedVars, viewVars>>
  /\ log.pc = "done"
  /\ log' = IdleLog
  /\ UNCHANGED <<concerts, users, artists, venues, logsLeft>>

(***************************************************************************)
(* Overlapping findOrCreateArtist and findOrCreateVenue calls              *)
(* (concertService.ts 25-71) while the manager is connected: each call is  *)
(* an executeWithRetry whose operation queries the collection by name and  *)
(* adds a document when the snapshot is empty.                             *)
(***************************************************************************)
Finders == 1..2
FinderNames == {"The Band", "The Venue"}

IdleFinder == [pc |-> "idle"]

\* lines 25-26, 47-48: the locals of a call; before (ghost) is the set of
\* documents of that name when the call began, empty (ghost) tells that the
\* snapshot of the latest query was empty, added (ghost) counts the
\* documents the call has added
NewFinder(col, name, before) ==
  [pc |-> "query", col |-> col, name |-> name, attempt |-> 1, before |-> before,
   empty |-> FALSE, added |-> 0, ref |-> 0, result |-> "none"]

\* the documents of the collection a call works on
FinderCollection(f) == IF f.col = "artists" THEN artists ELSE venues

\* lines 37-40, 60-66: the data of the new document
FinderData(f) ==
  IF f.col = "artists" THEN [name |-> f.name]
  ELSE [name |-> f.name, city |-> "Unknown", state |-> "Unknown", country |-> "Unknown"]

AddDocUnlessNamed(col, data) ==
  IF \E i \in 1..Len(col) : col[i].name = data.name THEN col ELSE Append(col, data)

\* lines 41, 67: addDoc creates a document with a fresh id whatever the
\* collection holds
AddDoc(col, data) == Append(col, data)

\* firebaseConnection.ts 122-141: the operation threw
FinderFail(f, out) ==
  IF IsNetworkError(Err[out]) /\ f.attempt < maxRetries
  THEN [f EXCEPT !.pc = "backoff"]
  ELSE [f EXCEPT !.pc = "done", !.result = "rejected"]

\* lines 33, 42, 56, 68: the operation returns the path of the document
FinderResolved(f, ref) == [f EXCEPT !.pc = "done", !.ref = ref, !.result = "resolved"]

\* lines 25-26: findOrCreateArtist(artistName)
FindOrCreateArtist(k) ==
  /\ UNCHANGED <<fnVars, connVars, revVars, feedVars, follow, fetch, search, debounced,
                 profile, concerts, users, log, logsLeft, artists, venues>>
  /\ finders[k].pc = "idle"
  /\ connectionState = "connected"
  /\ \E artistName \in FinderNames :
       finders' = [finders EXCEPT
                     ![k] = NewFinder("artists", artistName, Matches(artists, artistName))]

\* lines 47-48: findOrCreateVenue(venueName)
FindOrCreateVenue(k) ==
  /\ UNCHANGED <<fnVars, connVars, revVars, feedVars, follow, fetch, search, debounced,
                 profile, concerts, users, log, logsLeft, artists, venues>>
  /\ finders[k].pc = "idle"
  /\ connectionState = "connected"
  /\ \E venueName \in FinderNames :
       finders' = [finders EXCEPT
                     ![k] = NewFinder("venues", venueName, Matches(venues, venueName))]

\* lines 28-34, 51-57: getDocs(q) answers or throws
FinderGetDocs(k) ==
  /\ UNCHANGED <<fnVars, connVars, revVars, feedVars, follow, fetch, search, debounced,
                 profile, concerts, users, log, logsLeft, artists, venues>>
  /\ finders[k].pc = "query"
  /\ \E out \in StoreOutcomes :
       LET f == finders[k]
           m == Matches(FinderCollection(f), f.name)
       IN IF out # "ok" THEN finders' = [finders EXCEPT ![k] = FinderFail(f, out)]
          ELSE IF m = {}
          THEN finders' = [finders EXCEPT ![k] = [f EXCEPT !.pc = "add", !.empty = TRUE]]
          ELSE \E i \in m :
                 finders' = [finders EXCEPT
                               ![k] = FinderResolved([f EXCEPT !.empty = FALSE], i)]

\* lines 36-42, 59-68: addDoc answers or throws
FinderAddDoc(k) ==
  /\ UNCHANGED <<fnVars, connVars, revVars, feedVars, follow, fetch, search, debounced,
                 profile, concerts, users, log, logsLeft>>
  /\ finders[k].pc = "add"
  /\ \E out \in StoreOutcomes :
       LET f == finders[k]
           col == AddDoc(FinderCollection(f), FinderData(f))
       IN IF out # "ok"
          THEN /\ finders' = [finders EXCEPT ![k] = FinderFail(f, out)]
               /\ UNCHANGED <<artists, venues>>
          ELSE /\ finders' = [finders EXCEPT
                                ![k] = FinderResolved([f EXCEPT !.added = @ + 1],
                                                      Len(FinderCollection(f)) + 1)]
               /\ IF f.col = "artists"
                  THEN artists' = col /\ UNCHANGED venues
                  ELSE venues' = col /\ UNCHANGED artists

\* firebaseConnection.ts 129-133, 104-107: the delay ends and the operation
\* is invoked again
FinderBackoffEnds(k) ==
  /\ UNCHANGED <<fnVars, connVars, revVars, feedVars, follow, fetch, search, debounced,
                 profile, concerts, users, log, logsLeft, artists, venues>>
  /\ finders[k].pc = "backoff"
  /\ connectionState = "connected"
  /\ finders' = [finders EXCEPT ![k] = [@ EXCEPT !.pc = "query", !.attempt = @ + 1]]

(***************************************************************************)
(* The writers of the user document besides logConcert: signUp             *)
(* (authService.ts 7-31), HomeScreen.fetchUserProfile (part_007 38-87) and *)
(* UserProfileScreen.fetchUserData (part_006 51-78).                       *)
(***************************************************************************)
S_permission_denied ==
  <<"p","e","r","m","i","s","s","i","o","n","-","d","e","n","i","e","d">>

\* a user document that does not exist
MissingUserDoc == [exists |-> FALSE, loggedConcertsCount |-> 0]

\* authService.ts 14-19, part_007 49-54 and 67-72, part_006 63-68: the data
\* each setDoc writes
NewUserDoc == [exists |-> TRUE, loggedConcertsCount |-> 0]

\* setDoc(ref, data) without options replaces the document
SetDoc(doc, data) == data

IdleWriter == [pc |-> "idle"]

\* no account, and no signUp or screen effect in progress
IdleProfile ==
  [accounts |-> {}, signUp |-> IdleWriter, home |-> IdleWriter, view |-> IdleWriter]

\* authService.ts 9-10: createUserWithEmailAndPassword resolves for an
\* address without account; then setDoc is issued
SignUp ==
  /\ UNCHANGED <<fnVars, connVars, revVars, feedVars, follow, fetch, search, debounced,
                 finders, concerts, users, log, logsLeft, artists, venues>>
  /\ profile.signUp.pc = "idle"
  /\ \E uid \in UserIds \ profile.accounts :
       profile' = [profile EXCEPT !.accounts = @ \cup {uid},
                                  !.signUp = [pc |-> "setDoc", uid |-> uid]]

\* authService.ts 14-19, 26-30: setDoc answers, or throws and signUp rethrows
SignUpSetDoc ==
  /\ UNCHANGED <<fnVars, connVars, revVars, feedVars, follow, fetch, search, debounced,
                 finders, concerts, log, logsLeft, artists, venues>>
  /\ profile.signUp.pc = "setDoc"
  /\ \E out \in StoreOutcomes :
       LET uid == profile.signUp.uid IN
       /\ users' = IF out = "ok" THEN [users EXCEPT ![uid] = SetDoc(@, NewUserDoc)]
                   ELSE users
       /\ profile' = [profile EXCEPT !.signUp = IdleWriter]

\* concertService.ts 100-103 in a logConcert call of a signed-in user
\* (LogConcertScreen.tsx 117) that has reached line 101: updateDoc increments
\* the counter; when it throws, as it does when the document does not exist,
\* nothing is written. The steps of the call before it (actions FindOrCreateQuery to ConcertAddDoc)
\* and after it write no user document.
LogConcertUpdateDoc ==
  /\ UNCHANGED <<fnVars, connVars, revVars, feedVars, follow, fetch, search, debounced,
                 finders, profile, concerts, log, logsLeft, artists, venues>>
  /\ \E userId \in profile.accounts :
       /\ users[userId].exists
       /\ users[userId].loggedConcertsCount < MaxLogCalls
       /\ users' = [users EXCEPT ![userId].loggedConcertsCount = @ + 1]

\* part_007 38-42: the effect runs for the signed-in user
FetchUserProfile ==
  /\ UNCHANGED <<fnVars, connVars, revVars, feedVars, follow, fetch, search, debounced,
                 finders, concerts, users, log, logsLeft, artists, venues>>
  /\ profile.home.pc = "idle"
  /\ \E uid \in profile.accounts :
       profile' = [profile EXCEPT !.home = [pc |-> "getDoc", uid |-> uid,
                                            caught |-> FALSE]]

\* part_007 42-45, 59-63: getDoc answers or throws; the catch creates the
\* document when the code of the error is permission-denied
HomeGetDoc ==
  /\ UNCHANGED <<fnVars, connVars, revVars, feedVars, follow, fetch, search, debounced,
                 finders, concerts, users, log, logsLeft, artists, venues>>
  /\ profile.home.pc = "getDoc"
  /\ \E out \in StoreOutcomes :
       profile' =
         [profile EXCEPT !.home =
            IF out = "ok"
            THEN (IF users[@.uid].exists THEN IdleWriter ELSE [@ EXCEPT !.pc = "setDoc"])
            ELSE IF Err[out].code = S_permission_denied
            THEN [@ EXCEPT !.pc = "setDoc", !.caught = TRUE]
            ELSE IdleWriter]

\* part_007 56, 74: setDoc answers or throws; an error of the first setDoc
\* (line 56) is caught at line 59, an error of the second at line 76
HomeSetDoc ==
  /\ UNCHANGED <<fnVars, connVars, revVars, feedVars, follow, fetch, search, debounced,
                 finders, concerts, log, logsLeft, artists, venues>>
  /\ profile.home.pc = "setDoc"
  /\ \E out \in StoreOutcomes :
       LET h == profile.home IN
       /\ users' = IF out = "ok" THEN [users EXCEPT ![h.uid] = SetDoc(@, NewUserDoc)]
                   ELSE users
       /\ profile' =
            [profile EXCEPT !.home =
               IF out # "ok" /\ ~h.caught /\ Err[out].code = S_permission_denied
               THEN [h EXCEPT !.caught = TRUE]
               ELSE IdleWriter]

\* part_006 42, 51-57: the effect runs for the user of the route or the
\* signed-in user
FetchUserData ==
  /\ UNCHANGED <<fnVars, connVars, revVars, feedVars, follow, fetch, search, debounced,
                 finders, concerts, users, log, logsLeft, artists, venues>>
  /\ profile.view.pc = "idle"
  /\ profile.accounts # {}
  /\ \E profileUserId \in UserIds :
       profile' = [profile EXCEPT !.view = [pc |-> "getDoc", uid |-> profileUserId]]

\* part_006 57-60, 105-107: getDoc answers, or throws and the catch alerts
ViewGetDoc ==
  /\ UNCHANGED <<fnVars, connVars, revVars, feedVars, follow, fetch, search, debounced,
                 finders, concerts, users, log, logsLeft, artists, venues>>
  /\ profile.view.pc = "getDoc"
  /\ \E out \in StoreOutcomes :
       profile' =
         [profile EXCEPT !.view =
            IF out = "ok" /\ ~users[@.uid].exists
            THEN [@ EXCEPT !.pc = "setDoc"]
            ELSE IdleWriter]

\* part_006 70-77: setDoc answers, or throws and the catch logs
ViewSetDoc ==
  /\ UNCHANGED <<fnVars, connVars, revVars, feedVars, follow, fetch, search, debounced,
                 finders, concerts, log, logsLeft, artists, venues>>
  /\ profile.view.pc = "setDoc"
  /\ \E out \in StoreOutcomes :
       /\ users' = IF out = "ok"
                   THEN [users EXCEPT ![profile.view.uid] = SetDoc(@, NewUserDoc)]
                   ELSE users
       /\ profile' = [profile EXCEPT !.view = IdleWriter]

(***************************************************************************)
(* getFeedActivities (src/services/feedService.ts 30-154) while the        *)
(* manager is connected.                                                   *)
(***************************************************************************)
QueryLimit == 20      \* limit(20) of the concerts and the reviews query
FeedLimit == 30       \* activities.slice(0, 30)

IdleFeed == [pc |-> "idle"]

\* an absent field of a document reads as undefined
Undefined == "undefined"
Field(data, name) == IF name \in DOMAIN data THEN data[name] ELSE Undefined

\* a || b for strings
OrElse(a, b) == IF a = Undefined \/ a = "" THEN b ELSE a

\* path.split('/').pop()
RECURSIVE LastSegment(_)
LastSegment(path) ==
  IF \E i \in 1..Len(path) : path[i] = "/"
  THEN LastSegment(Tail(path))
  ELSE path

\* the items of q in descending order of timestamp, items of equal timestamp
\* in the order they have in q
RECURSIVE InsertByTimestamp(_, _)
InsertByTimestamp(sorted, x) ==
  IF sorted = <<>> THEN <<x>>
  ELSE IF Head(sorted).timestamp >= x.timestamp
       THEN <<Head(sorted)>> \o InsertByTimestamp(Tail(sorted), x)
       ELSE <<x>> \o sorted

RECURSIVE SortByTimestampDesc(_)
SortByTimestampDesc(q) ==
  IF q = <<>> THEN <<>>
  ELSE InsertByTimestamp(SortByTimestampDesc(SubSeq(q, 1, Len(q) - 1)), q[Len(q)])

\* Array.prototype.slice(0, n)
Slice(q, n) == SubSeq(q, 1, IF Len(q) < n THEN Len(q) ELSE n)

\* lines 59-66, 95-102: the documents of col whose userRef is in refs, in
\* descending order of createdAt, the first n of them
RECURSIVE Snapshot(_, _, _)
Snapshot(col, refs, i) ==
  IF i > Len(col) THEN <<>>
  ELSE (IF col[i].userRef \in refs
        THEN <<[id |-> i, timestamp |-> col[i].createdAt, data |-> col[i]]>>
        ELSE <<>>) \o Snapshot(col, refs, i + 1)

QueryIn(col, ids, n) ==
  Slice(SortByTimestampDesc(Snapshot(col, {DocPath(S_users, id) : id \in ids}, 1)), n)

\* lines 67-92: the feed item of a concert document
ConcertItem(d) ==
  LET artistName == Field(d.data, "artistName")
      venueName == Field(d.data, "venueName")
  IN [id |-> <<"concert", d.id>>, type |-> "concert_logged",
      userId |-> LastSegment(d.data.userRef), concertId |-> d.id,
      concertName |-> <<artistName, " at ", venueName>>,
      artistName |-> OrElse(artistName, "Unknown Artist"),
      venueName |-> OrElse(venueName, "Unknown Venue"),
      timestamp |-> d.data.createdAt]

\* lines 103-143: the feed item of a review document
ReviewItem(d) ==
  LET found == d.data.concertRef \in 1..Len(concerts)
      artistName == IF found
                    THEN OrElse(Field(concerts[d.data.concertRef], "artistName"),
                                "Unknown Artist")
                    ELSE "Unknown Artist"
      venueName == IF found
                   THEN OrElse(Field(concerts[d.data.concertRef], "venueName"),
                               "Unknown Venue")
                   ELSE "Unknown Venue"
  IN [id |-> <<"review", d.id>>, type |-> "review_posted",
      userId |-> LastSegment(d.data.userRef), concertId |-> d.data.concertRef,
      concertName |-> <<artistName, " at ", venueName>>,
      artistName |-> artistName, venueName |-> venueName,
      reviewId |-> d.id, timestamp |-> d.data.createdAt]

\* lines 67, 103: for (const doc of snapshot.docs) activities.push(item)
ConcertItems(snapshot) == [i \in 1..Len(snapshot) |-> ConcertItem(snapshot[i])]
ReviewItems(snapshot) == [i \in 1..Len(snapshot) |-> ReviewItem(snapshot[i])]

SortActivitiesNot(activities) == activities

\* line 146: activities.sort((a, b) => b.timestamp.getTime() - a.timestamp.getTime())
SortActivities(activities) == SortByTimestampDesc(activities)

\* lines 52-54 and 149: return; the promise of getFeedActivities resolves
FeedResolved(f, result) ==
  [f EXCEPT !.pc = "done", !.result = result, !.outcome = "resolved"]

FeedRethrown(f) == [f EXCEPT !.failed = f.pc, !.pc = "done", !.outcome = "rejected"]

\* lines 150-153: .catch of getFeedActivities returns []; failed (ghost) is
\* the step whose error reached the handler
FeedCaught(f) == FeedResolved([f EXCEPT !.failed = f.pc], <<>>)

FollowingEmptyNever(followingUserIds) == FALSE

\* line 52
FollowingEmpty(followingUserIds) == Cardinality(followingUserIds) = 0

\* lines 50-56: getFollowingUsers has resolved
Followed(f, followingUserIds) ==
  IF FollowingEmpty(followingUserIds)
  THEN FeedResolved(f, <<>>)
  ELSE [f EXCEPT !.pc = "concertsQuery", !.followingUserIds = followingUserIds,
                 !.activities = <<>>]

\* firebaseConnection.ts 122-141 for the outer call; feedService.ts 150-153
FeedFail(f, out) ==
  IF IsNetworkError(Err[out]) /\ f.attempt < maxRetries
  THEN [f EXCEPT !.pc = "backoff"]
  ELSE FeedCaught(f)

\* lines 48-50, 30-33: getFeedActivities(userId); gathered and queried (ghost)
\* are the number of activities before the slice and whether a concerts or a
\* reviews query was issued
GetFeedActivities ==
  /\ UNCHANGED <<fnVars, connVars, revVars, logVars, concerts, following, viewVars>>
  /\ feed.pc = "idle"
  /\ connectionState = "connected"
  /\ \E userId \in UserIds :
       feed' = [pc |-> "followingQuery", userId |-> userId, attempt |-> 1, inner |-> 1,
                followingUserIds |-> {}, snapshot |-> <<>>, activities |-> <<>>,
                gathered |-> 0, queried |-> FALSE, result |-> <<>>,
                outcome |-> "pending", failed |-> "none"]

\* lines 31-44: getDocs(followingRef) answers or throws; getFollowingUsers
\* retries a transient error and resolves to [] when it fails (lines 41-44)
FollowingQuery ==
  /\ UNCHANGED <<fnVars, connVars, revVars, logVars, concerts, following, viewVars>>
  /\ feed.pc = "followingQuery"
  /\ \E out \in StoreOutcomes :
       feed' = IF out = "ok" THEN Followed(feed, following[feed.userId])
               ELSE IF IsNetworkError(Err[out]) /\ feed.inner < maxRetries
               THEN [feed EXCEPT !.pc = "followingBackoff"]
               ELSE Followed([feed EXCEPT !.failed = feed.pc], {})

\* firebaseConnection.ts 129-133: the delay of getFollowingUsers ends
FollowingBackoffEnds ==
  /\ UNCHANGED <<fnVars, connVars, revVars, logVars, concerts, following, viewVars>>
  /\ feed.pc = "followingBackoff"
  /\ connectionState = "connected"
  /\ feed' = [feed EXCEPT !.pc = "followingQuery", !.inner = @ + 1]

\* lines 59-66: the concerts query answers or throws
FeedConcertsQuery ==
  /\ UNCHANGED <<fnVars, connVars, revVars, logVars, concerts, following, viewVars>>
  /\ feed.pc = "concertsQuery"
  /\ \E out \in StoreOutcomes :
       LET f == [feed EXCEPT !.queried = TRUE] IN
       feed' = IF out = "ok"
               THEN [f EXCEPT !.pc = "concertLookups",
                              !.snapshot = QueryIn(concerts, f.followingUserIds, QueryLimit)]
               ELSE FeedFail(f, out)

\* lines 67-92: the user lookups of the concert documents all answer, or one
\* of them throws
FeedConcertLookups ==
  /\ UNCHANGED <<fnVars, connVars, revVars, logVars, concerts, following, viewVars>>
  /\ feed.pc = "concertLookups"
  /\ \E out \in StoreOutcomes :
       /\ feed.snapshot = <<>> => out = "ok"
       /\ feed' = IF out = "ok"
                  THEN [feed EXCEPT !.pc = "reviewsQuery", !.snapshot = <<>>,
                                    !.activities = ConcertItems(feed.snapshot)]
                  ELSE FeedFail(feed, out)

\* lines 95-102: the reviews query answers or throws
FeedReviewsQuery ==
  /\ UNCHANGED <<fnVars, connVars, revVars, logVars, concerts, following, viewVars>>
  /\ feed.pc = "reviewsQuery"
  /\ \E out \in StoreOutcomes :
       feed' = IF out = "ok"
               THEN [feed EXCEPT !.pc = "reviewLookups",
                                 !.snapshot = QueryIn(reviewDocs, feed.followingUserIds,
                                                      QueryLimit)]
               ELSE FeedFail(feed, out)

\* lines 103-149: the user and concert lookups of the review documents all
\* answer, or one of them throws; then the activities are sorted and cut
FeedReviewLookups ==
  /\ UNCHANGED <<fnVars, connVars, revVars, logVars, concerts, following, viewVars>>
  /\ feed.pc = "reviewLookups"
  /\ \E out \in StoreOutcomes :
       /\ feed.snapshot = <<>> => out = "ok"
       /\ feed' = IF out = "ok"
                  THEN LET activities ==
                             feed.activities \o ReviewItems(feed.snapshot)
                       IN FeedResolved([feed EXCEPT !.snapshot = <<>>,
                                                    !.activities = <<>>,
                                                    !.gathered = Len(activities)],
                                       Slice(SortActivities(activities), FeedLimit))
                  ELSE FeedFail(feed, out)

\* firebaseConnection.ts 129-133: the delay of the outer call ends and the
\* operation is invoked again
FeedBackoffEnds ==
  /\ UNCHANGED <<fnVars, connVars, revVars, logVars, concerts, following, viewVars>>
  /\ feed.pc = "backoff"
  /\ connectionState = "connected"
  /\ feed' = [feed EXCEPT !.pc = "followingQuery", !.attempt = @ + 1, !.inner = 1,
                          !.snapshot = <<>>, !.activities = <<>>]

\* the caller has the result
FeedReturn ==
  /\ UNCHANGED <<fnVars, connVars, revVars, logVars, concerts, following, viewVars>>
  /\ feed.pc = "done"
  /\ feed' = IdleFeed

(***************************************************************************)
(* followUser, unfollowUser and isFollowing (feedService.ts 157-193) while *)
(* the manager is connected.                                               *)
(***************************************************************************)
\* lines 1-12: the names feedService.ts imports from 'firebase/firestore'
Imports ==
  {"collection", "query", "where", "orderBy", "limit", "getDocs", "doc",
   "collectionGroup", "setDoc", "deleteDoc"}

\* lines 160, 175, 187: the store function the operation of each call uses
StoreFunction ==
  [followUser |-> "setDoc", unfollowUser |-> "deleteDoc", isFollowing |-> "getDoc"]

\* what evaluating a name that the module does not bind throws: no code, and
\* the message "getDoc is not defined"
ReferenceError ==
  [code |-> <<>>,
   message |-> <<"g","e","t","D","o","c"," ","i","s"," ","n","o","t"," ",
                 "d","e","f","i","n","e","d">>]

IdleFollow == [pc |-> "idle"]

\* lines 157-158, 172-173, 185-186: the locals of a call; before (ghost) is
\* the follow edges when the call was made, storeError (ghost) tells that a
\* store request of the call has failed
NewFollow(op, currentUserId, targetUserId) ==
  [pc |-> "store", op |-> op, currentUserId |-> currentUserId,
   targetUserId |-> targetUserId, attempt |-> 1, before |-> following,
   storeError |-> FALSE, failed |-> FALSE, outcome |-> "pending", result |-> FALSE]

\* lines 164, 177, 188: the operation returns and the call resolves
FollowResolved(f, result) ==
  [f EXCEPT !.pc = "done", !.outcome = "resolved", !.result = result]

FollowRethrown(f) == [f EXCEPT !.pc = "done", !.outcome = "rejected", !.failed = TRUE]

\* lines 165-168, 178-181, 189-192: .catch returns false
FollowCaught(f) == FollowResolved([f EXCEPT !.failed = TRUE], FALSE)

\* firebaseConnection.ts 122-141: the operation has thrown error
FollowFail(f, error) ==
  IF IsNetworkError(error) /\ f.attempt < maxRetries
  THEN [f EXCEPT !.pc = "backoff"]
  ELSE FollowCaught(f)

\* lines 157-158: followUser(currentUserId, targetUserId)
FollowUser ==
  /\ UNCHANGED <<fnVars, connVars, revVars, logVars, concerts, feed, fetch, search, debounced, acctVars>>
  /\ follow.pc = "idle"
  /\ connectionState = "connected"
  /\ \E currentUserId \in UserIds, targetUserId \in UserIds :
       follow' = NewFollow("followUser", currentUserId, targetUserId)
  /\ UNCHANGED following

\* lines 172-173: unfollowUser(currentUserId, targetUserId)
UnfollowUser ==
  /\ UNCHANGED <<fnVars, connVars, revVars, logVars, concerts, feed, fetch, search, debounced, acctVars>>
  /\ follow.pc = "idle"
  /\ connectionState = "connected"
  /\ \E currentUserId \in UserIds, targetUserId \in UserIds :
       follow' = NewFollow("unfollowUser", currentUserId, targetUserId)
  /\ UNCHANGED following

\* lines 185-186: isFollowing(currentUserId, targetUserId)
IsFollowing ==
  /\ UNCHANGED <<fnVars, connVars, revVars, logVars, concerts, feed, fetch, search, debounced, acctVars>>
  /\ follow.pc = "idle"
  /\ connectionState = "connected"
  /\ \E currentUserId \in UserIds, targetUserId \in UserIds :
       follow' = NewFollow("isFollowing", currentUserId, targetUserId)
  /\ UNCHANGED following

\* lines 159-164: setDoc writes the edge document, or throws
FollowSetDoc ==
  /\ UNCHANGED <<fnVars, connVars, revVars, logVars, concerts, feed, fetch, search, debounced, acctVars>>
  /\ follow.pc = "store"
  /\ follow.op = "followUser"
  /\ \E out \in StoreOutcomes :
       IF out = "ok"
       THEN /\ following' = [following EXCEPT
                               ![follow.currentUserId] = @ \cup {follow.targetUserId}]
            /\ follow' = FollowResolved(follow, TRUE)
       ELSE /\ UNCHANGED following
            /\ follow' = FollowFail([follow EXCEPT !.storeError = TRUE], Err[out])

\* lines 174-177: deleteDoc removes the edge document, or throws
FollowDeleteDoc ==
  /\ UNCHANGED <<fnVars, connVars, revVars, logVars, concerts, feed, fetch, search, debounced, acctVars>>
  /\ follow.pc = "store"
  /\ follow.op = "unfollowUser"
  /\ \E out \in StoreOutcomes :
       IF out = "ok"
       THEN /\ following' = [following EXCEPT
                               ![follow.currentUserId] = @ \ {follow.targetUserId}]
            /\ follow' = FollowResolved(follow, TRUE)
       ELSE /\ UNCHANGED following
            /\ follow' = FollowFail([follow EXCEPT !.storeError = TRUE], Err[out])

\* lines 187-188: the operation evaluates getDoc(...): a name the module
\* binds reads the edge document, or throws; a name it does not bind throws
\* the ReferenceError before any request is made
FollowGetDoc ==
  /\ UNCHANGED <<fnVars, connVars, revVars, logVars, concerts, feed, fetch, search, debounced, acctVars>>
  /\ follow.pc = "store"
  /\ follow.op = "isFollowing"
  /\ IF StoreFunction[follow.op] \in Imports
     THEN \E out \in StoreOutcomes :
            follow' = IF out = "ok"
                      THEN FollowResolved(follow,
                             follow.targetUserId \in following[follow.currentUserId])
                      ELSE FollowFail([follow EXCEPT !.storeError = TRUE], Err[out])
     ELSE follow' = FollowFail(follow, ReferenceError)
  /\ UNCHANGED following

\* firebaseConnection.ts 129-133, 104-107: the delay ends and the operation
\* is invoked again
FollowBackoffEnds ==
  /\ UNCHANGED <<fnVars, connVars, revVars, logVars, concerts, feed, fetch, search, debounced, acctVars>>
  /\ follow.pc = "backoff"
  /\ connectionState = "connected"
  /\ follow' = [follow EXCEPT !.pc = "store", !.attempt = @ + 1]
  /\ UNCHANGED following

\* the caller has the result
FollowReturn ==
  /\ UNCHANGED <<fnVars, connVars, revVars, logVars, concerts, feed, fetch, search, debounced, acctVars>>
  /\ follow.pc = "done"
  /\ follow' = IdleFollow
  /\ UNCHANGED following

(***************************************************************************)
(* getConcertReviews (concertService.ts 229-318) while the manager is      *)
(* connected.  The reference of a concert is its id: the stored concertRef *)
(* and the one of the query are the same doc(db, 'concerts', id).path.     *)
(***************************************************************************)
MaxStoredReviews == 4     \* reviews in the store of SpecFetch
Times == {1, 2}           \* creation times of the reviews of SpecFetch

S_currently_building == <<"c","u","r","r","e","n","t","l","y"," ","b",
                        "u","i","l","d","i","n","g">>
S_requires_an_index == <<"r","e","q","u","i","r","e","s"," ","a","n",
                       " ","i","n","d","e","x">>

\* the errors of the ordered query while its composite index is being built
\* or does not exist, and the errors of Err
FetchErr ==
  [building |-> [code |-> S_failed_precondition,
                 message |-> <<"T","h","e"," ","q","u","e","r","y"," ",
                              "r","e","q","u","i","r","e","s"," ","a",
                              "n"," ","i","n","d","e","x","."," ","T",
                              "h","a","t"," ","i","n","d","e","x"," ",
                              "i","s"," ","c","u","r","r","e","n","t",
                              "l","y"," ","b","u","i","l","d","i","n",
                              "g"," ","a","n","d"," ","c","a","n","n",
                              "o","t"," ","b","e"," ","u","s","e","d",
                              " ","y","e","t",".">>],
   missing  |-> [code |-> S_failed_precondition,
                 message |-> <<"T","h","e"," ","q","u","e","r","y"," ",
                              "r","e","q","u","i","r","e","s"," ","a",
                              "n"," ","i","n","d","e","x","."," ","Y",
                              "o","u"," ","c","a","n"," ","c","r","e",
                              "a","t","e"," ","i","t"," ","h","e","r",
                              "e">>],
   unavailable |-> Err.unavailable,
   denied |-> Err.denied]
PrimaryOutcomes == {"ok"} \cup DOMAIN FetchErr

IsIndexErrorNever(error) == FALSE

\* lines 255, 285
IsIndexError(error) ==
  \/ Includes(error.message, S_currently_building)
  \/ Includes(error.message, S_requires_an_index)

\* lines 233-235, 259-262: where('concertRef', '==', ...): the reviews of the
\* concert in the order of their ids
RECURSIVE ReviewsOf(_, _, _)
ReviewsOf(col, concertRef, i) ==
  IF i > Len(col) THEN <<>>
  ELSE (IF col[i].concertRef = concertRef
        THEN <<[id |-> i, timestamp |-> col[i].createdAt, data |-> col[i]]>>
        ELSE <<>>) \o ReviewsOf(col, concertRef, i + 1)

Reverse(q) == [i \in 1..Len(q) |-> q[Len(q) + 1 - i]]

\* lines 233-239: the ordered query: createdAt descending, and reviews of
\* equal createdAt by id descending, as the index keeps them
OrderedQuery(col, concertRef) == SortByTimestampDesc(Reverse(ReviewsOf(col, concertRef, 1)))

SortReviewsNot(list) == list

\* lines 278, 308: reviews.sort((a, b) => b.createdAt.getTime() - a.createdAt.getTime())
SortReviews(list) == SortByTimestampDesc(list)

\* lines 259-281, 289-311: the unordered query, sorted in memory
FallbackQuery(col, concertRef) == SortReviews(ReviewsOf(col, concertRef, 1))

IdleFetch == [pc |-> "idle"]

\* lines 252, 281, 311: the operation returns and the call resolves
FetchResolved(f, list, usingFallback) ==
  [f EXCEPT !.pc = "done", !.outcome = "resolved", !.reviews = list,
            !.usingFallback = usingFallback]

\* line 315 and firebaseConnection.ts 122-141: the operation throws the error
FetchFail(f, out) ==
  IF IsNetworkError(FetchErr[out]) /\ f.attempt < maxRetries
  THEN [f EXCEPT !.pc = "backoff"]
  ELSE [f EXCEPT !.pc = "done", !.outcome = "rejected", !.error = out]

\* lines 229-231: getConcertReviews(concertId); primary and fallback (ghost)
\* are the answers of the two queries in the latest attempt
GetConcertReviews ==
  /\ UNCHANGED <<fnVars, connVars, revVars, logVars, feedVars, concerts, follow, search,
                 debounced, acctVars>>
  /\ fetch.pc = "idle"
  /\ connectionState = "connected"
  /\ \E concertId \in 1..Len(concerts) :
       fetch' = [pc |-> "primary", concertId |-> concertId, attempt |-> 1,
                 primary |-> "none", fallback |-> "none", outcome |-> "pending",
                 reviews |-> <<>>, usingFallback |-> FALSE, error |-> "none"]

\* lines 231-253: the ordered query answers or throws
FetchPrimary ==
  /\ UNCHANGED <<fnVars, connVars, revVars, logVars, feedVars, concerts, follow, search,
                 debounced, acctVars>>
  /\ fetch.pc = "primary"
  /\ \E out \in PrimaryOutcomes :
       LET f == [fetch EXCEPT !.primary = out] IN
       fetch' = IF out = "ok"
                THEN FetchResolved(f, OrderedQuery(reviewDocs, f.concertId), FALSE)
                ELSE IF IsIndexError(FetchErr[out])
                THEN [f EXCEPT !.pc = "fallback"]
                ELSE FetchFail(f, out)

\* lines 255-312: the unordered query answers or throws
FetchFallback ==
  /\ UNCHANGED <<fnVars, connVars, revVars, logVars, feedVars, concerts, follow, search,
                 debounced, acctVars>>
  /\ fetch.pc = "fallback"
  /\ \E out \in StoreOutcomes :
       LET f == [fetch EXCEPT !.fallback = out] IN
       fetch' = IF out = "ok"
                THEN FetchResolved(f, FallbackQuery(reviewDocs, f.concertId), TRUE)
                ELSE FetchFail(f, out)

\* firebaseConnection.ts 129-133, 104-107: the delay ends and the operation
\* is invoked again
FetchBackoffEnds ==
  /\ UNCHANGED <<fnVars, connVars, revVars, logVars, feedVars, concerts, follow, search,
                 debounced, acctVars>>
  /\ fetch.pc = "backoff"
  /\ connectionState = "connected"
  /\ fetch' = [fetch EXCEPT !.pc = "primary", !.attempt = @ + 1,
                            !.primary = "none", !.fallback = "none"]

\* the caller has the result
FetchReturn ==
  /\ UNCHANGED <<fnVars, connVars, revVars, logVars, feedVars, concerts, follow, search,
                 debounced, acctVars>>
  /\ fetch.pc = "done"
  /\ fetch' = IdleFetch

(***************************************************************************)
(* searchConcerts, searchArtists and searchVenues (searchService.ts        *)
(* 31-173).  The store compares strings character by character, by code.   *)
(***************************************************************************)
SearchLimit == 10     \* limit(10) of each query
ResultLimit == 10     \* slice(0, 10)

\* the character U+F8FF, which comes after those of the names
HighChar == "uf8ff"
\* the characters of the names and terms, in the order of their codes
CharOrder == <<"U", "a", "b", "k", "n", "o", "w", HighChar>>
CharCode(c) == CHOOSE k \in 1..Len(CharOrder) : CharOrder[k] = c

S_Unknown == <<"U", "n", "k", "n", "o", "w", "n">>

\* s <= t for strings
RECURSIVE StringLeq(_, _)
StringLeq(a, b) ==
  IF a = <<>> THEN TRUE
  ELSE IF b = <<>> THEN FALSE
  ELSE IF CharCode(a[1]) < CharCode(b[1]) THEN TRUE
  ELSE IF CharCode(a[1]) > CharCode(b[1]) THEN FALSE
  ELSE StringLeq(Tail(a), Tail(b))

\* lines 36-37, 59-60, 95-96, 126-127, 147-148: where(field, '>=', searchTerm)
\* and where(field, '<=', searchTerm + U+F8FF); a document without the
\* field does not match
InRange(data, field, searchTerm) ==
  /\ field \in DOMAIN data
  /\ StringLeq(searchTerm, data[field])
  /\ StringLeq(data[field], searchTerm \o <<HighChar>>)

\* the matching documents of col from position i on
RECURSIVE RangeMatches(_, _, _, _)
RangeMatches(col, field, searchTerm, i) ==
  IF i > Len(col) THEN <<>>
  ELSE (IF InRange(col[i], field, searchTerm)
        THEN <<[id |-> i, key |-> col[i][field], data |-> col[i]]>>
        ELSE <<>>) \o RangeMatches(col, field, searchTerm, i + 1)

\* orderBy(field): ascending, documents of equal value in the order of ids
RECURSIVE InsertByKey(_, _)
InsertByKey(sorted, x) ==
  IF sorted = <<>> THEN <<x>>
  ELSE IF StringLeq(Head(sorted).key, x.key)
       THEN <<Head(sorted)>> \o InsertByKey(Tail(sorted), x)
       ELSE <<x>> \o sorted

RECURSIVE SortByKey(_)
SortByKey(q) ==
  IF q = <<>> THEN <<>>
  ELSE InsertByKey(SortByKey(SubSeq(q, 1, Len(q) - 1)), q[Len(q)])

\* lines 34-40, 57-63, 93-99, 124-130, 145-151: the range query with
\* orderBy(field) and limit(10)
RangeQuery(col, field, searchTerm) ==
  Slice(SortByKey(RangeMatches(col, field, searchTerm, 1)), SearchLimit)

PushAll(list, more) == list \o more

\* lines 66-80, 154-166: push the documents of the second snapshot that are
\* not in the list yet
RECURSIVE PushNew(_, _)
PushNew(list, more) ==
  IF more = <<>> THEN list
  ELSE PushNew(IF \E k \in 1..Len(list) : list[k].id = Head(more).id
               THEN list ELSE Append(list, Head(more)),
               Tail(more))

\* the field of the first query of each function and that of the second
PrimaryField == [concerts |-> "artistName", artists |-> "name", venues |-> "name"]
SecondaryField == [concerts |-> "venueName", venues |-> "city"]

\* lines 33, 92, 123: the collection each function searches
SearchedCollection(kind) ==
  CASE kind = "concerts" -> concerts
    [] kind = "artists" -> artists
    [] kind = "venues" -> venues

\* search terms: FeedScreen.tsx 397-408 searches for the trimmed query when
\* it is not empty
SearchTerms == {<<"U">>, <<"U", "n">>, <<"a">>, <<"b">>}

IdleSearch == [pc |-> "idle"]

\* lines 31-33, 90-92, 121-123: the locals of a call; first and second
\* (ghost) are the snapshots of the two queries
NewSearch(kind, searchTerm) ==
  [pc |-> "primary", kind |-> kind, searchTerm |-> searchTerm, list |-> <<>>,
   first |-> <<>>, second |-> <<>>, failed |-> FALSE, result |-> <<>>]

\* lines 82, 113, 168: return
SearchResolved(c, result) == [c EXCEPT !.pc = "done", !.result = result]

\* lines 83-86, 114-117, 169-172: catch returns []
SearchCaught(c) == SearchResolved([c EXCEPT !.failed = TRUE], <<>>)

\* lines 31-33: searchConcerts(searchTerm)
SearchConcerts ==
  /\ UNCHANGED <<fnVars, connVars, revVars, logVars, feedVars, concerts, follow, fetch,
                 debounced, acctVars>>
  /\ search.pc = "idle"
  /\ \E searchTerm \in SearchTerms : search' = NewSearch("concerts", searchTerm)

\* lines 90-92: searchArtists(searchTerm)
SearchArtists ==
  /\ UNCHANGED <<fnVars, connVars, revVars, logVars, feedVars, concerts, follow, fetch,
                 debounced, acctVars>>
  /\ search.pc = "idle"
  /\ \E searchTerm \in SearchTerms : search' = NewSearch("artists", searchTerm)

\* lines 121-123: searchVenues(searchTerm)
SearchVenues ==
  /\ UNCHANGED <<fnVars, connVars, revVars, logVars, feedVars, concerts, follow, fetch,
                 debounced, acctVars>>
  /\ search.pc = "idle"
  /\ \E searchTerm \in SearchTerms : search' = NewSearch("venues", searchTerm)

\* lines 34-54, 93-113, 124-142: the first query answers or throws;
\* searchArtists returns its documents
SearchFirstQuery ==
  /\ UNCHANGED <<fnVars, connVars, revVars, logVars, feedVars, concerts, follow, fetch,
                 debounced, acctVars>>
  /\ search.pc = "primary"
  /\ \E out \in StoreOutcomes :
       LET snapshot == RangeQuery(SearchedCollection(search.kind),
                                  PrimaryField[search.kind], search.searchTerm)
           c == [search EXCEPT !.list = snapshot, !.first = snapshot]
       IN search' = IF out # "ok" THEN SearchCaught(search)
                    ELSE IF search.kind = "artists" THEN SearchResolved(c, c.list)
                    ELSE [c EXCEPT !.pc = "secondary"]

\* lines 56-82, 144-168: the second query answers or throws; its documents
\* are merged into the list and the first 10 are returned
SearchSecondQuery ==
  /\ UNCHANGED <<fnVars, connVars, revVars, logVars, feedVars, concerts, follow, fetch,
                 debounced, acctVars>>
  /\ search.pc = "secondary"
  /\ \E out \in StoreOutcomes :
       LET snapshot == RangeQuery(SearchedCollection(search.kind),
                                  SecondaryField[search.kind], search.searchTerm)
           c == [search EXCEPT !.list = PushNew(search.list, snapshot),
                               !.second = snapshot]
       IN search' = IF out # "ok" THEN SearchCaught(search)
                    ELSE SearchResolved(c, Slice(c.list, ResultLimit))

\* the caller has the result
SearchReturn ==
  /\ UNCHANGED <<fnVars, connVars, revVars, logVars, feedVars, concerts, follow, fetch,
                 debounced, acctVars>>
  /\ search.pc = "done"
  /\ search' = IdleSearch

(***************************************************************************)
(* debounce (searchService.ts 19-28): the function it returns, the timers  *)
(* of the runtime and a clock.  A timer runs its callback at the instant   *)
(* it is due, before the calls made at that instant.                       *)
(***************************************************************************)
MaxCalls == 3      \* calls of the debounced function in a behaviour of SpecDebounce
MaxTime == 6       \* instants of the clock in a behaviour of SpecDebounce
Delay == 2         \* the delay argument of debounce, in instants

\* the arguments of a call
Args == {"x", "y"}

\* line 23: let timeoutId, undefined until the first call
NoTimeout == 0

\* lines 19-23: the closure as debounce returns it: no timer set; calls and
\* fired (ghost) are the calls made and the invocations of func so far
NewDebounced ==
  [timeoutId |-> NoTimeout, timers |-> {}, now |-> 0, calls |-> <<>>, fired |-> <<>>]

ClearTimeoutNot(timers, timeoutId) == timers

\* line 25: clearTimeout(timeoutId); a timer that ran, and undefined, clear
\* nothing
ClearTimeout(timers, timeoutId) == {t \in timers : t.id # timeoutId}

\* a timer is due
TimerDue == \E t \in debounced.timers : t.due <= debounced.now

\* lines 24-27: the debounced function is called with args
DebouncedCall ==
  /\ UNCHANGED <<fnVars, connVars, revVars, logVars, feedVars, concerts, follow, fetch,
                 search, acctVars>>
  /\ Len(debounced.calls) < MaxCalls
  /\ ~TimerDue
  /\ \E args \in Args :
       LET id == Len(debounced.calls) + 1 IN
       debounced' =
         [debounced EXCEPT
            !.timers = ClearTimeout(@, debounced.timeoutId)
                         \cup {[id |-> id, due |-> debounced.now + Delay, args |-> args]},
            !.timeoutId = id,
            !.calls = Append(@, [at |-> debounced.now, args |-> args])]

\* line 26: the callback of a timer runs func(...args); n (ghost) is the
\* number of calls made before
TimerFires ==
  /\ UNCHANGED <<fnVars, connVars, revVars, logVars, feedVars, concerts, follow, fetch,
                 search, acctVars>>
  /\ \E t \in debounced.timers :
       /\ t.due <= debounced.now
       /\ debounced' =
            [debounced EXCEPT
               !.timers = @ \ {t},
               !.fired = Append(@, [at |-> debounced.now, args |-> t.args,
                                    n |-> Len(debounced.calls)])]

\* the clock advances when no timer is due
Tick ==
  /\ UNCHANGED <<fnVars, connVars, revVars, logVars, feedVars, concerts, follow, fetch,
                 search, acctVars>>
  /\ debounced.now < MaxTime
  /\ ~TimerDue
  /\ debounced' = [debounced EXCEPT !.now = @ + 1]

(***************************************************************************)
(* Specifications                                                          *)
(***************************************************************************)
\* a review r1 as submitReview creates it (concertService.ts lines 216-217);
\* no review r2
InitStore ==
  /\ reviews = [r \in DocIds |->
                 [exists |-> r = "r1", likesCount |-> 0, commentsCount |-> 0]]
  /\ likedBy = [r \in DocIds |-> {}]
  /\ likeAuth = [r \in DocIds |-> [u \in Users |-> NoAuth]]
  /\ comments = [r \in DocIds |-> <<>>]
  /\ lock = [r \in DocIds |-> Free]
  /\ call = [c \in Slots |-> IdleCall]
  /\ last = [r \in DocIds |-> Nil]
  /\ togglesOdd = [r \in DocIds |-> [u \in Users |-> FALSE]]

\* lines 8-13: the manager as constructed
InitManager ==
  /\ connectionState = "connecting"
  /\ initialized = FALSE
  /\ mgr = [retryQueue |-> <<>>, isRetrying |-> FALSE, draining |-> {},
            ex |-> [c \in CallIds |-> NoCall], ticket |-> 1, lastStarted |-> 0]
  /\ connectionListeners = <<>>
  /\ notice = [state |-> "connecting", before |-> <<>>, calls |-> <<>>]

\* no call of the follow, review list and search services in progress, and
\* a debounced function that was never called
InitViews ==
  /\ follow = IdleFollow
  /\ fetch = IdleFetch
  /\ search = IdleSearch
  /\ debounced = NewDebounced
  /\ finders = [k \in Finders |-> IdleFinder]
  /\ profile = IdleProfile

\* no call of the client services in progress
InitCalls ==
  /\ reviewDocs = <<>>
  /\ submit = IdleSubmit
  /\ users = [u \in UserIds |-> [exists |-> TRUE, loggedConcertsCount |-> 0]]
  /\ log = IdleLog
  /\ following = [u \in UserIds |-> {}]
  /\ feed = IdleFeed
  /\ InitViews

\* an empty database
InitServices ==
  /\ concerts = <<>>
  /\ artists = <<>>
  /\ venues = <<>>
  /\ InitCalls
  /\ logsLeft = 0

Init ==
  InitStore /\ InitManager /\ InitServices
  /\ opsLeft = [like |-> MaxBothOps, comment |-> MaxBothOps]
InitLike ==
  InitStore /\ InitManager /\ InitServices
  /\ opsLeft = [like |-> MaxLikeOps, comment |-> 0]
InitComment ==
  InitStore /\ InitManager /\ InitServices
  /\ opsLeft = [like |-> 0, comment |-> MaxCommentOps]
InitConn ==
  InitStore /\ InitManager /\ InitServices /\ opsLeft = [like |-> 0, comment |-> 0]
\* one concert as logConcert writes it (lines 87-98), of any owner and rating
InitReview ==
  /\ InitStore /\ InitManager /\ InitCalls /\ opsLeft = [like |-> 0, comment |-> 0]
  /\ \E owner \in UserIds, rating \in Ratings :
       concerts = <<[artistRef |-> 1, venueRef |-> 1,
                     userRef |-> DocPath(S_users, owner), rating |-> rating,
                     createdAt |-> 1,
                     logged |-> [artistName |-> "The Band", venueName |-> "The Venue"]]>>
  /\ artists = <<[name |-> "The Band"]>>
  /\ venues = <<[name |-> "The Venue", city |-> "Unknown", state |-> "Unknown",
                 country |-> "Unknown"]>>
  /\ logsLeft = 0
\* numbers of concerts and of reviews in the store of SpecFeed: none, one,
\* fewer than the limit of a query, more than it
FeedCounts == {0, 1, 11, 21}
\* the creation times of the documents of a collection, in creation order
TimePatterns == {"rising", "falling", "same"}
CreatedAt(pattern, i, n) ==
  CASE pattern = "rising" -> i
    [] pattern = "falling" -> n + 1 - i
    [] pattern = "same" -> 1
\* the owners of the documents alternate between the two users
OwnerOf(i) == IF i % 2 = 1 THEN <<"b">> ELSE <<"a", "b">>

\* a store of concerts as logConcert writes them and of reviews as
\* submitReview writes them, and any follow edges
InitFeed ==
  /\ InitStore /\ InitManager /\ opsLeft = [like |-> 0, comment |-> 0]
  /\ submit = IdleSubmit /\ log = IdleLog /\ logsLeft = 0 /\ feed = IdleFeed
  /\ InitViews
  /\ artists = <<[name |-> "The Band"]>>
  /\ venues = <<[name |-> "The Venue", city |-> "Unknown", state |-> "Unknown",
                 country |-> "Unknown"]>>
  /\ \E nc \in FeedCounts, nr \in FeedCounts, pc \in TimePatterns, pr \in TimePatterns :
       /\ nc = 0 => nr = 0
       /\ concerts = [i \in 1..nc |->
                       [artistRef |-> 1, venueRef |-> 1,
                        userRef |-> DocPath(S_users, OwnerOf(i)), rating |-> 5,
                        createdAt |-> CreatedAt(pc, i, nc),
                        logged |-> [artistName |-> "The Band",
                                    venueName |-> "The Venue"]]]
       /\ reviewDocs = [i \in 1..nr |->
                         [concertRef |-> 1, userRef |-> DocPath(S_users, OwnerOf(i)),
                          text |-> <<"a">>, rating |-> 5,
                          createdAt |-> CreatedAt(pr, i, nr),
                          likesCount |-> 0, commentsCount |-> 0]]
       /\ users = [u \in UserIds |->
                    [exists |-> TRUE, loggedConcertsCount |->
                       Cardinality({i \in 1..nc : OwnerOf(i) = u})]]
  /\ following \in [UserIds -> SUBSET UserIds]

\* an empty database with the user documents, and logConcert calls to make
InitLog ==
  /\ InitStore /\ InitManager /\ InitCalls /\ opsLeft = [like |-> 0, comment |-> 0]
  /\ concerts = <<>>
  /\ artists = <<>>
  /\ venues = <<>>
  /\ logsLeft = MaxLogCalls

\* the collections of artists and venues empty, and two calls to make
InitFind ==
  InitStore /\ InitManager /\ InitServices /\ opsLeft = [like |-> 0, comment |-> 0]

\* an empty database without accounts and user documents
InitProfile ==
  /\ InitStore /\ InitManager /\ opsLeft = [like |-> 0, comment |-> 0]
  /\ concerts = <<>>
  /\ artists = <<>>
  /\ venues = <<>>
  /\ reviewDocs = <<>>
  /\ submit = IdleSubmit
  /\ users = [u \in UserIds |-> MissingUserDoc]
  /\ log = IdleLog
  /\ logsLeft = 0
  /\ following = [u \in UserIds |-> {}]
  /\ feed = IdleFeed
  /\ InitViews

\* an empty database: no follow edge
InitFollow ==
  InitStore /\ InitManager /\ InitServices /\ opsLeft = [like |-> 0, comment |-> 0]

\* two concerts as logConcert writes them, and up to MaxStoredReviews reviews
\* as submitReview writes them, of either concert and created at any times
InitFetch ==
  /\ InitStore /\ InitManager /\ opsLeft = [like |-> 0, comment |-> 0]
  /\ submit = IdleSubmit /\ log = IdleLog /\ logsLeft = 0 /\ feed = IdleFeed
  /\ InitViews
  /\ artists = <<[name |-> "The Band"]>>
  /\ venues = <<[name |-> "The Venue", city |-> "Unknown", state |-> "Unknown",
                 country |-> "Unknown"]>>
  /\ concerts = [i \in 1..2 |->
                  [artistRef |-> 1, venueRef |-> 1,
                   userRef |-> DocPath(S_users, OwnerOf(i)), rating |-> 5,
                   createdAt |-> i,
                   logged |-> [artistName |-> "The Band", venueName |-> "The Venue"]]]
  /\ users = [u \in UserIds |-> [exists |-> TRUE, loggedConcertsCount |-> 1]]
  /\ following = [u \in UserIds |-> {}]
  /\ \E n \in 0..MaxStoredReviews :
       \E concertRef \in [1..n -> 1..2], createdAt \in [1..n -> Times] :
         reviewDocs = [i \in 1..n |->
                        [concertRef |-> concertRef[i],
                         userRef |-> DocPath(S_users, OwnerOf(i)),
                         text |-> <<"a">>, rating |-> 5, createdAt |-> createdAt[i],
                         likesCount |-> 0, commentsCount |-> 0]]

\* numbers of documents in each collection of SpecSearch: none, one, fewer
\* than the limit of a query, more than it
SearchCounts == {0, 1, 3, 12}
\* the names of the documents of a collection, in creation order
NamePatterns == {"cycle", "same", "other"}
NameOf(pattern, i) ==
  CASE pattern = "cycle" ->
         (CASE i % 4 = 0 -> <<"U">> [] i % 4 = 1 -> <<"a">>
            [] i % 4 = 2 -> <<"U", "n">> [] i % 4 = 3 -> <<"U", "b">>)
    [] pattern = "same" -> <<"U">>
    [] pattern = "other" -> <<"a">>

\* artists and venues as findOrCreateArtist and findOrCreateVenue write them
\* (concertService.ts 36-41, 59-67) and concerts as logConcert writes them
\* (87-96), which have no artistName and no venueName, or concerts that carry
\* the two names the queries of lines 36 and 59 read
InitSearch ==
  /\ InitStore /\ InitManager /\ opsLeft = [like |-> 0, comment |-> 0]
  /\ InitCalls /\ logsLeft = 0
  /\ \E n \in SearchCounts, pa \in NamePatterns, pv \in NamePatterns, named \in BOOLEAN :
       /\ artists = [i \in 1..n |-> [name |-> NameOf(pa, i)]]
       /\ venues = [i \in 1..n |->
                     [name |-> NameOf(pv, i), city |-> S_Unknown,
                      state |-> S_Unknown, country |-> S_Unknown]]
       /\ concerts = [i \in 1..n |->
                       LET written == [artistRef |-> i, venueRef |-> i,
                                       userRef |-> DocPath(S_users, OwnerOf(i)),
                                       rating |-> 5, createdAt |-> i,
                                       logged |-> [artistName |-> NameOf(pa, i),
                                                   venueName |-> NameOf(pv, i)]]
                       IN IF named
                          THEN written @@ [artistName |-> NameOf(pa, i),
                                           venueName |-> NameOf(pv, i)]
                          ELSE written]

LikeStep(c) ==
  \/ LikeReviewCall(c)
  \/ LikePreRead(c)
  \/ LikeTxnGet(c)
  \/ LikeTxnCommit(c)
  \/ LikePostRead(c)

CommentStep(c) ==
  \/ AddCommentCall(c)
  \/ CommentTxnGet(c)
  \/ CommentTxnCommit(c)

Next == \E c \in Slots : LikeStep(c) \/ CommentStep(c) \/ StoreFailure(c) \/ Return(c)
NextLike == \E c \in Slots : LikeStep(c) \/ StoreFailure(c) \/ Return(c)
NextComment == \E c \in Slots : CommentStep(c) \/ StoreFailure(c) \/ Return(c)

CallStep ==
  \E c \in CallIds :
    ExecuteWithRetry(c) \/ OpSettles(c) \/ ReplaySettles(c) \/ BackoffEnds(c)

NextConn ==
  \/ CallStep
  \/ InitializeOk
  \/ InitializeFail
  \/ Disconnect
  \/ ReconnectOk
  \/ ReconnectFail

\* the manager with listeners and no executeWithRetry call
NextListen ==
  \/ \E l \in Listeners : OnConnectionStateChange(l) \/ Unsubscribe(l)
  \/ InitializeOk
  \/ InitializeFail
  \/ Disconnect
  \/ ReconnectOk
  \/ ReconnectFail

NextReview ==
  \/ SubmitReview
  \/ HandleSubmitReview
  \/ SubmitGetConcert
  \/ SubmitAddDoc
  \/ SubmitFails
  \/ SubmitReturn

\* initialization succeeds, then logConcert calls one after the other
NextLog ==
  \/ InitializeOk
  \/ LogConcert
  \/ FindOrCreateQuery
  \/ FindOrCreateAdd
  \/ FindOrCreateBackoffEnds
  \/ ConcertAddDoc
  \/ CounterUpdateDoc
  \/ AnalyticsLogged
  \/ LogBackoffEnds
  \/ LogReturn

\* initialization succeeds, then two findOrCreate calls that may overlap
NextFind ==
  \/ InitializeOk
  \/ \E k \in Finders : FindOrCreateArtist(k)
  \/ \E k \in Finders : FindOrCreateVenue(k)
  \/ \E k \in Finders : FinderGetDocs(k)
  \/ \E k \in Finders : FinderAddDoc(k)
  \/ \E k \in Finders : FinderBackoffEnds(k)

\* sign-ups, the effects of the two screens and the counter updates of
\* logConcert calls, interleaved
NextProfile ==
  \/ SignUp
  \/ SignUpSetDoc
  \/ FetchUserProfile
  \/ HomeGetDoc
  \/ HomeSetDoc
  \/ FetchUserData
  \/ ViewGetDoc
  \/ ViewSetDoc
  \/ LogConcertUpdateDoc

\* initialization succeeds, then getFeedActivities calls one after the other
NextFeed ==
  \/ InitializeOk
  \/ GetFeedActivities
  \/ FollowingQuery
  \/ FollowingBackoffEnds
  \/ FeedConcertsQuery
  \/ FeedConcertLookups
  \/ FeedReviewsQuery
  \/ FeedReviewLookups
  \/ FeedBackoffEnds
  \/ FeedReturn

\* initialization succeeds, then follow, unfollow and isFollowing calls one
\* after the other
NextFollow ==
  \/ InitializeOk
  \/ FollowUser
  \/ UnfollowUser
  \/ IsFollowing
  \/ FollowSetDoc
  \/ FollowDeleteDoc
  \/ FollowGetDoc
  \/ FollowBackoffEnds
  \/ FollowReturn

\* initialization succeeds, then getConcertReviews calls one after the other
NextFetch ==
  \/ InitializeOk
  \/ GetConcertReviews
  \/ FetchPrimary
  \/ FetchFallback
  \/ FetchBackoffEnds
  \/ FetchReturn

\* search calls one after the other
NextSearch ==
  \/ SearchConcerts
  \/ SearchArtists
  \/ SearchVenues
  \/ SearchFirstQuery
  \/ SearchSecondQuery
  \/ SearchReturn

\* calls of the debounced function at any instants
NextDebounce ==
  \/ DebouncedCall
  \/ TimerFires
  \/ Tick

Spec == Init /\ [][Next]_vars
SpecLike == InitLike /\ [][NextLike]_vars
SpecComment == InitComment /\ [][NextComment]_vars
SpecConn == InitConn /\ [][NextConn]_vars
SpecListen == InitConn /\ [][NextListen]_vars
SpecReview == InitReview /\ [][NextReview]_vars
SpecLog == InitLog /\ [][NextLog]_vars
SpecFeed == InitFeed /\ [][NextFeed]_vars
SpecFollow == InitFollow /\ [][NextFollow]_vars
SpecFetch == InitFetch /\ [][NextFetch]_vars
SpecSearch == InitSearch /\ [][NextSearch]_vars
SpecDebounce == InitConn /\ [][NextDebounce]_vars
SpecFind == InitFind /\ [][NextFind]_vars
SpecProfile == InitProfile /\ [][NextProfile]_vars

\* store requests complete, timers fire and initialization ends; nothing
\* obliges the application to call, disconnect or reconnect
SpecConnFair ==
  /\ SpecConn
  /\ \A c \in CallIds :
       /\ WF_vars(OpSettles(c))
       /\ WF_vars(ReplaySettles(c))
       /\ WF_vars(BackoffEnds(c))

(***************************************************************************)
(* Properties                                                              *)
(***************************************************************************)
\* C1: in every state, for every review, likesCount equals the number of
\* likedBy records of the review.
C1_LikesCounterConsistent ==
  \A r \in DocIds : reviews[r].exists => reviews[r].likesCount = Cardinality(likedBy[r])

\* C2: when two likeReview calls of one user on one review have both returned
\* 'liked' or 'unliked', membership and counter are those of a serial
\* execution of the toggles: the user is a member exactly when an odd number of
\* the user's toggles has committed, and likesCount is the number of likedBy
\* records.
C2_ToggleSerializable ==
  \A r \in DocIds, u \in Users :
    (\A c \in Slots : /\ call[c].pc = "done"
                      /\ call[c].result \in {"liked", "unliked"}
                      /\ call[c].reviewId = r
                      /\ call[c].userId = u)
    => /\ (u \in likedBy[r]) <=> togglesOdd[r][u]
       /\ reviews[r].likesCount = Cardinality(likedBy[r])

\* C3: when a successful likeReview(R, U) returns, and the previous toggle of R
\* was a successful likeReview(R, U) that had returned before this call began,
\* and no other toggle of R committed from the start of the first call to the
\* return of the second, then likesCount and the membership of U are what they
\* were before the first call, and the two calls returned different actions.
C3_ToggleInvolution ==
  [][\A c \in Slots :
       ( /\ call[c].pc = "postRead"
         /\ call'[c].pc = "done"
         /\ call'[c].result \in {"liked", "unliked"}
         /\ call[c].first # Nil
         /\ call[c].undisturbed )
       => LET r == call[c].reviewId
              u == call[c].userId
          IN /\ reviews'[r].likesCount = call[c].first.preCount
             /\ (u \in likedBy'[r]) <=> (call[c].first.action = "unliked")
             /\ call'[c].result # call[c].first.action]_vars

\* C4: a call that is unauthenticated or names another user than its caller
\* never reaches a store request, and every likedBy record (r, u) and every
\* comment with userRef u was written by a call authenticated as u.
C4_IdentityGating ==
  /\ \A c \in Slots :
       call[c].pc \in StorePcs => call[c].auth \in Users /\ call[c].userId = call[c].auth
  /\ \A r \in DocIds : \A u \in likedBy[r] : likeAuth[r][u] = u
  /\ \A r \in DocIds : \A k \in 1..Len(comments[r]) :
       comments[r][k].by = comments[r][k].userRef

\* a like and a comment were stored while another call was refused for naming
\* another user
C4_Witness ==
  /\ \E c \in Slots : call[c].result = "permission-denied"
  /\ likedBy["r1"] # {}

\* C5: commentsCount equals the number of comment records in every state, and
\* a successful addComment adds one comment and adds 1 to commentsCount.
C5_CommentsCounter ==
  /\ [](\A r \in DocIds : reviews[r].commentsCount = Len(comments[r]))
  /\ [][\A c \in Slots :
          (call[c].pc = "txnCommit" /\ call'[c].result = "success")
          => LET r == call[c].reviewId IN
             /\ Len(comments'[r]) = Len(comments[r]) + 1
             /\ reviews'[r].commentsCount = reviews[r].commentsCount + 1]_vars

\* two comments are stored and a third addComment is inside its transaction
C5_Witness ==
  /\ reviews["r1"].commentsCount = 2
  /\ \E c \in Slots : call[c].kind = "comment" /\ call[c].pc = "txnCommit"

\* C6: no addComment call with an empty or blank text reaches a store request
\* (it is refused with comments and commentsCount as they were), and every
\* stored comment text is non-empty and has no blank at either end.
C6_BlankCommentRejected ==
  /\ \A c \in Slots :
       (call[c].kind = "comment" /\ call[c].pc \in StorePcs)
       => \E i \in 1..Len(call[c].text) : call[c].text[i] \notin Whitespace
  /\ \A r \in DocIds : \A k \in 1..Len(comments[r]) :
       /\ comments[r][k].text # <<>>
       /\ Head(comments[r][k].text) \notin Whitespace
       /\ comments[r][k].text[Len(comments[r][k].text)] \notin Whitespace

\* a blank text was refused after a padded text had been stored trimmed
C6_Witness ==
  /\ \E c \in Slots :
       /\ call[c].kind = "comment"
       /\ call[c].result = "invalid-argument"
       /\ call[c].text = <<" ", " ">>
  /\ Len(comments["r1"]) = 1

AlwaysThrows(x) == x.op.out # "ok"

\* the errors of Err that the retry policy is to treat as transient: code
\* unavailable, message containing "offline"
Transient == {"unavailable", "offline"}

RetryOutcome(x) ==
  IF x.op.out \in Transient
  THEN x.invocations = maxRetries /\ x.error = x.op.out
  ELSE x.invocations = 1 /\ x.error = x.op.out

\* C7 as stated: a call whose first attempt found the state connected and whose
\* operation always throws has, when it rejects, invoked the operation 3 times
\* for a transient error and once for another error, and rejects with it.
C7_RetryBoundFirstAttempt ==
  \A c \in CallIds :
    LET x == mgr.ex[c] IN
    (AlwaysThrows(x) /\ x.firstConnected /\ x.pc = "rejected") => RetryOutcome(x)

\* C7 amended: the same for a call each of whose attempts found the state
\* connected; no call invokes its operation more than 3 times.
C7_RetryBound ==
  \A c \in CallIds :
    LET x == mgr.ex[c] IN
    /\ x.invocations <= maxRetries
    /\ (AlwaysThrows(x) /\ x.allConnected /\ x.pc = "rejected") => RetryOutcome(x)

\* a call rejected after three invocations, and one rejected after one
C7_Witness ==
  /\ \E c \in TopCalls :
       LET x == mgr.ex[c] IN
       x.pc = "rejected" /\ x.allConnected /\ x.invocations = 3 /\ x.error = "offline"
  /\ \E c \in TopCalls :
       LET x == mgr.ex[c] IN
       x.pc = "rejected" /\ x.allConnected /\ x.invocations = 1 /\ x.error = "denied"

\* C8: if the state is eventually connected for good, every queued call
\* eventually resolves or rejects: from some point on no call is waiting in the
\* queue or for its replay to end (no call is queued while the state is
\* connected, so the calls queued are finitely many).
C8_QueuedCallsSettle ==
  <>[](connectionState = "connected")
    => <>[](\A c \in CallIds : mgr.ex[c].pc \notin {"queued", "replaying"})

\* C9: at most one queued operation is executing (one drain loop is awaiting),
\* and then isRetrying is set; the operations are started in the order of their
\* enqueueing, none skipped: the queue holds, in order, exactly the tickets
\* after the last one started.
C9_ReplayInOrderOneAtATime ==
  /\ Cardinality(mgr.draining) <= 1
  /\ mgr.draining # {} => mgr.isRetrying
  /\ \A c \in mgr.draining : mgr.ex[c].pc = "replaying"
  /\ \A k \in 1..Len(mgr.retryQueue) : mgr.retryQueue[k].ticket = mgr.lastStarted + k
  /\ mgr.ticket = mgr.lastStarted + Len(mgr.retryQueue) + 1

\* the second queued operation is executing while a third waits, after a
\* disconnect
C9_Witness ==
  /\ mgr.lastStarted = 2
  /\ mgr.draining # {}
  /\ mgr.retryQueue # <<>>
  /\ connectionState = "disconnected"

\* C10: a queued operation is started only in state connected; the queue
\* changes only by removing its head or adding at its end; and if the state is
\* eventually connected for good, the operations left in the queue are
\* replayed: the queue is emptied.
C10_DrainHaltsAndResumes ==
  /\ [][\A c \in CallIds :
          (mgr.ex[c].pc = "queued" /\ mgr'.ex[c].pc # "queued")
          => connectionState' = "connected"]_vars
  /\ [][\/ \E k \in 0..Len(mgr'.retryQueue) :
             SubSeq(mgr'.retryQueue, 1, k) = mgr.retryQueue
        \/ \E k \in 0..Len(mgr'.retryQueue) :
             SubSeq(mgr'.retryQueue, 1, k) = Tail(mgr.retryQueue)]_vars
  /\ <>[](connectionState = "connected") => []<>(mgr.retryQueue = <<>>)

\* the transitions of the state machine: connecting to connected or error,
\* connected to disconnected, disconnected or error to connected
StateMachine ==
  {<<"connecting", "connected">>, <<"connecting", "error">>,
   <<"connected", "disconnected">>, <<"disconnected", "connected">>,
   <<"error", "connected">>}

\* C11: the state is initially connecting, and under any sequence of
\* initialization outcome, disconnect() and reconnect() calls every change of
\* state is a transition of the state machine.
C11_StateMachineOnly ==
  /\ connectionState = "connecting"
  /\ [][connectionState' # connectionState
          => <<connectionState, connectionState'>> \in StateMachine]_vars

\* C12: after every setConnectionState call the state is the one set, and
\* every listener that was registered when the call began has been invoked
\* with the new state, those registered after one that threw as well.
C12_ListenersAllInvoked ==
  /\ connectionState = notice.state
  /\ \A l \in Range(notice.before) :
       \E i \in 1..Len(notice.calls) :
         notice.calls[i].listener = l /\ notice.calls[i].state = connectionState

\* the owner of a concert is the user whose document its userRef names
IsOwner(userId, concert) == concert.userRef = DocPath(S_users, userId)

\* C13: when a submitReview call by the owner of the concert has resolved, the
\* rating of the review it stored is the rating of the concert, whatever the
\* rating argument was.
C13_SelfReviewRatingLock ==
  (submit.pc = "done" /\ submit.result = "resolved"
   /\ IsOwner(submit.userId, concerts[submit.concertId]))
  => reviewDocs[submit.id].rating = concerts[submit.concertId].rating

\* the owner's review was stored after a call with another rating than the
\* concert's
C13_Witness ==
  /\ submit.pc = "done" /\ submit.result = "resolved"
  /\ IsOwner(submit.userId, concerts[submit.concertId])
  /\ submit.given # concerts[submit.concertId].rating

\* C14: when a submitReview call by a user who is not the owner of the concert
\* has resolved, the rating of the review it stored is the rating argument,
\* for every pair of distinct ids, one of which may be a suffix of the other.
C14_OtherReviewRatingAsGiven ==
  (submit.pc = "done" /\ submit.result = "resolved"
   /\ ~IsOwner(submit.userId, concerts[submit.concertId]))
  => reviewDocs[submit.id].rating = submit.given

\* the Concert records whose userRef points to user u
ConcertsOf(u) == {i \in 1..Len(concerts) : concerts[i].userRef = DocPath(S_users, u)}

\* C15: whenever no logConcert call is in progress, every user's
\* loggedConcertsCount equals the number of Concert records whose userRef
\* points to the user.
C15_CounterMatchesConcerts ==
  log.pc \in {"idle", "done"}
  => \A u \in UserIds : users[u].loggedConcertsCount = Cardinality(ConcertsOf(u))

\* C16: a logConcert call that has ended created at most one Concert record;
\* when it resolved it created exactly one, the one whose id it returns, and
\* incremented the counter exactly once.
C16_OneConcertPerCall ==
  log.pc = "done"
  => /\ Len(log.created) <= 1
     /\ log.result = "resolved"
          => /\ log.created = <<log.concertId>>
             /\ log.increments = 1

\* C17: when a logConcert(u, A, V, date, r, notes) call that began on a store
\* without artists, venues and concerts, with u's counter 0, has resolved, the
\* store holds exactly one Artist named A, one Venue named V with city, state
\* and country 'Unknown', one Concert with rating r that references them and
\* u, and u's counter is 1.
C17_FreshStoreScenario ==
  (log.pc = "done" /\ log.result = "resolved" /\ log.fresh)
  => /\ artists = <<[name |-> log.artistName]>>
     /\ venues = <<[name |-> log.venueName, city |-> "Unknown", state |-> "Unknown",
                    country |-> "Unknown"]>>
     /\ Len(concerts) = 1
     /\ concerts[1].rating = log.rating
     /\ concerts[1].artistRef = 1
     /\ concerts[1].venueRef = 1
     /\ concerts[1].userRef = DocPath(S_users, log.userId)
     /\ users[log.userId].loggedConcertsCount = 1

\* C18: the store holds at most one Artist record per name and one Venue
\* record per name, names compared case-sensitively; every concert references
\* the records of the names it was logged with, so concerts logged with the
\* same name reference the same record.
C18_EntityReuse ==
  /\ \A i, j \in 1..Len(artists) : artists[i].name = artists[j].name => i = j
  /\ \A i, j \in 1..Len(venues) : venues[i].name = venues[j].name => i = j
  /\ \A k \in 1..Len(concerts) :
       /\ concerts[k].artistRef \in 1..Len(artists)
       /\ artists[concerts[k].artistRef].name = concerts[k].logged.artistName
       /\ concerts[k].venueRef \in 1..Len(venues)
       /\ venues[concerts[k].venueRef].name = concerts[k].logged.venueName

\* two calls have resolved, logged with the same artist name and with venue
\* names that differ in case only: one artist, two venues
C18_Witness ==
  /\ log.pc = "done" /\ log.result = "resolved" /\ logsLeft = 0
  /\ Len(artists) = 1
  /\ Len(venues) = 2
  /\ \E k \in 1..Len(concerts) : concerts[k].logged.venueName # log.venueName

\* C19: the list a getFeedActivities call returns has at most 30 items, and
\* of any two of its items the earlier in the list has a timestamp at least
\* that of the later.
C19_FeedBoundAndOrder ==
  feed.pc = "done"
  => /\ Len(feed.result) <= 30
     /\ \A i, j \in 1..Len(feed.result) :
          i < j => feed.result[i].timestamp >= feed.result[j].timestamp

\* a call that gathered more than 30 activities, concerts and reviews, returned
\* 30 items of different timestamps
C19_Witness ==
  /\ feed.pc = "done"
  /\ feed.gathered > 30
  /\ Len(feed.result) = 30
  /\ feed.result[1].timestamp > feed.result[30].timestamp
  /\ \E i, j \in 1..30 : feed.result[i].type # feed.result[j].type

\* C20: a getFeedActivities call of a user whose following set is empty
\* returns the empty list and issues no concerts query and no reviews query.
C20_EmptyFollowingFeed ==
  (feed.pc = "done" /\ following[feed.userId] = {})
  => feed.result = <<>> /\ ~feed.queried

\* the call of a user who follows nobody has returned, with concerts and
\* reviews of other users in the store
C20_Witness ==
  /\ feed.pc = "done"
  /\ following[feed.userId] = {}
  /\ Len(concerts) > 1 /\ Len(reviewDocs) > 1
\* C21: a getFeedActivities call never rejects, and when a step of it (the
\* following lookup, the concerts query, the reviews query, a per-item lookup)
\* has failed for good, the call resolves to the empty list.
C21_FeedNeverRejects ==
  feed.pc = "done"
  => /\ feed.outcome = "resolved"
     /\ feed.failed # "none" => feed.result = <<>>

\* the lookups of the review items fail at the third attempt, after concert
\* items were gathered
C21_Witness ==
  /\ feed.pc = "done"
  /\ feed.failed = "reviewLookups"
  /\ feed.attempt = maxRetries
  /\ Len(feed.activities) > 0
  /\ feed.outcome = "resolved"
  /\ feed.result = <<>>

\* C22: a followUser, unfollowUser or isFollowing call never rejects; when
\* its operation has failed for good the call resolves to false, and a failed
\* followUser or unfollowUser leaves the follow edges as they were.
C22_FollowNeverRejects ==
  follow.pc = "done"
  => /\ follow.outcome = "resolved"
     /\ follow.failed
        => /\ follow.result = FALSE
           /\ follow.op \in {"followUser", "unfollowUser"} => following = follow.before

\* unfollowUser of an existing edge fails at the third attempt
C22_Witness ==
  /\ follow.pc = "done"
  /\ follow.op = "unfollowUser"
  /\ follow.failed /\ follow.storeError
  /\ follow.attempt = maxRetries
  /\ follow.result = FALSE
  /\ follow.targetUserId \in following[follow.currentUserId]

\* a followUser call that resolved to true has added its edge and nothing
\* else (so a second one changes nothing), and an unfollowUser call that
\* resolved to true has removed its edge and nothing else
FollowEdgeEffects ==
  (follow.pc = "done" /\ follow.result /\ follow.op # "isFollowing")
  => following =
       [follow.before EXCEPT
          ![follow.currentUserId] =
             IF follow.op = "followUser" THEN @ \cup {follow.targetUserId}
             ELSE @ \ {follow.targetUserId}]

\* C23: an isFollowing(a, b) call none of whose store requests failed
\* returns true exactly when the edge (a, b) exists; followUser is idempotent
\* and unfollowUser removes the edge followUser added.
C23_IsFollowingExistence ==
  /\ (follow.pc = "done" /\ follow.op = "isFollowing" /\ ~follow.storeError)
     => follow.result = (follow.targetUserId \in following[follow.currentUserId])
  /\ FollowEdgeEffects

\* C24: a getConcertReviews call resolves with usingFallback true exactly
\* when, in its last attempt, the ordered query failed with the index-building
\* or the index-missing error and the unordered query answered; it resolves
\* with usingFallback false exactly when the ordered query answered; and it
\* rejects, with that error, exactly when the ordered query failed with another
\* error or the unordered query failed, a transient error only after
\* maxRetries attempts.
C24_FallbackFlag ==
  fetch.pc = "done"
  => LET index == fetch.primary \in {"building", "missing"}
         resolved == fetch.outcome = "resolved"
     IN /\ fetch.outcome \in {"resolved", "rejected"}
        /\ (resolved /\ fetch.usingFallback) <=> (index /\ fetch.fallback = "ok")
        /\ (resolved /\ ~fetch.usingFallback) <=> fetch.primary = "ok"
        /\ ~resolved
           => /\ fetch.error = IF index THEN fetch.fallback ELSE fetch.primary
              /\ IsNetworkError(FetchErr[fetch.error]) => fetch.attempt = maxRetries

\* the index is missing and the unordered query answers with reviews
C24_Witness ==
  /\ fetch.pc = "done"
  /\ fetch.primary = "missing"
  /\ fetch.fallback = "ok"
  /\ fetch.outcome = "resolved"
  /\ fetch.usingFallback
  /\ fetch.reviews # <<>>

\* C25: the list the fallback path returns holds exactly the reviews of the
\* requested concert, each once, in descending order of createdAt; it is the
\* list of the ordered query on the same store up to the order of reviews of
\* equal createdAt.
C25_FallbackEquivalent ==
  (fetch.pc = "done" /\ fetch.outcome = "resolved" /\ fetch.usingFallback)
  => LET r == fetch.reviews
         p == OrderedQuery(reviewDocs, fetch.concertId)
     IN /\ {r[k].id : k \in 1..Len(r)}
             = {i \in 1..Len(reviewDocs) : reviewDocs[i].concertRef = fetch.concertId}
        /\ \A j, k \in 1..Len(r) : j # k => r[j].id # r[k].id
        /\ \A j, k \in 1..Len(r) : j < k => r[j].timestamp >= r[k].timestamp
        /\ \A k \in 1..Len(r) : r[k].data = reviewDocs[r[k].id]
        /\ Len(r) = Len(p)
        /\ \A k \in 1..Len(r) : r[k].timestamp = p[k].timestamp
        /\ {r[k].id : k \in 1..Len(r)} = {p[k].id : k \in 1..Len(p)}

\* the store holds a review of the other concert and three of the requested
\* one, not in order of time and two of them of equal createdAt, which the
\* two paths return in different orders
C25_Witness ==
  /\ fetch.pc = "done" /\ fetch.outcome = "resolved" /\ fetch.usingFallback
  /\ Len(fetch.reviews) = 3
  /\ Len(reviewDocs) = 4
  /\ fetch.reviews # ReviewsOf(reviewDocs, fetch.concertId, 1)
  /\ fetch.reviews # OrderedQuery(reviewDocs, fetch.concertId)
  /\ fetch.reviews[1].timestamp > fetch.reviews[3].timestamp

\* C26: a submitReview call for a concert id of no document rejects and
\* leaves the reviews as they were; a call that resolved has added exactly one
\* review, with likesCount 0, commentsCount 0 and the text argument without
\* its leading and trailing whitespace.
C26_SubmitReviewOutcome ==
  submit.pc = "done"
  => /\ submit.concertId \notin 1..Len(concerts)
        => submit.result = "rejected" /\ reviewDocs = submit.before
     /\ submit.result = "resolved"
        => /\ Len(reviewDocs) = Len(submit.before) + 1
           /\ SubSeq(reviewDocs, 1, Len(submit.before)) = submit.before
           /\ submit.id = Len(reviewDocs)
           /\ LET r == reviewDocs[submit.id]
                  g == submit.text
              IN /\ r.likesCount = 0 /\ r.commentsCount = 0
                 /\ r.concertRef = submit.concertId
                 /\ r.text # <<>>
                    => r.text[1] \notin Whitespace /\ r.text[Len(r.text)] \notin Whitespace
                 /\ \E i \in 0..Len(g) :
                      /\ i + Len(r.text) <= Len(g)
                      /\ SubSeq(g, i + 1, i + Len(r.text)) = r.text
                      /\ \A k \in 1..Len(g) :
                           (k <= i \/ k > i + Len(r.text)) => g[k] \in Whitespace

\* after a review was added, a call for a concert id of no document is
\* rejected with 'Concert not found'
C26_Witness ==
  /\ submit.pc = "done"
  /\ submit.concertId \notin 1..Len(concerts)
  /\ submit.result = "rejected" /\ submit.error = "Concert not found"
  /\ Len(reviewDocs) = 1
  /\ reviewDocs[1].likesCount = 0

\* C27: every review in the store has a rating from 1 to 5.
C27_ReviewRatingRange ==
  \A i \in 1..Len(reviewDocs) : reviewDocs[i].rating \in 1..5

\* C28: the list a search call returns has at most 10 documents, no two of
\* the same id, and every document whose primary field matched the term comes
\* before every document that only matched on the secondary field; when a
\* query of the call failed the list is empty.
C28_SearchResults ==
  search.pc = "done"
  => LET r == search.result
         primary(k) == InRange(r[k].data, PrimaryField[search.kind], search.searchTerm)
     IN /\ Len(r) <= 10
        /\ \A j, k \in 1..Len(r) : j # k => r[j].id # r[k].id
        /\ \A j, k \in 1..Len(r) : (j < k /\ primary(k)) => primary(j)
        /\ search.failed => r = <<>>

\* a venue search returns 10 documents, some matched on the name and some on
\* the city only, and the second query returned a document the first one had
C28_Witness ==
  /\ search.pc = "done" /\ search.kind = "venues"
  /\ Len(search.result) = 10
  /\ InRange(search.result[1].data, "name", search.searchTerm)
  /\ ~InRange(search.result[10].data, "name", search.searchTerm)
  /\ \E j \in 1..Len(search.first), k \in 1..Len(search.second) :
       search.first[j].id = search.second[k].id
  /\ Len(PushAll(search.first, search.second)) > 10

C30_AnalyticsNeverRaises ==
  (log.pc # "idle" /\ log.sink # "none")
  => /\ log.pc = "done"
     /\ log.result = "resolved"
     /\ log.concertId = log.created[Len(log.created)]

\* the sink threw after the concert and counter writes of the call, and the
\* call resolved
C30_Witness ==
  /\ log.pc = "done"
  /\ log.sink = "throws"
  /\ log.result = "resolved"
  /\ Len(log.created) = 1 /\ log.increments = 1


\* C32: for every user, loggedConcertsCount never decreases across any
\* interleaving of the writers of the user document: signUp, logConcert and
\* the lazy profile creation of the home and the profile screen.
C32_CounterNeverDecreases ==
  [][\A u \in UserIds :
       users'[u].loggedConcertsCount >= users[u].loggedConcertsCount]_vars

\* C31: two overlapping findOrCreateArtist (or findOrCreateVenue) calls with
\* the same name, on a store without a record of that name, that both saw
\* an empty snapshot have each created a record: the collection holds two
\* records of the name, and the calls return different ids.
C31_OverlappingCallsDuplicate ==
  \A j, k \in Finders :
    (/\ j # k
     /\ finders[j].pc = "done" /\ finders[k].pc = "done"
     /\ finders[j].result = "resolved" /\ finders[k].result = "resolved"
     /\ finders[j].col = finders[k].col /\ finders[j].name = finders[k].name
     /\ finders[j].before = {} /\ finders[k].before = {}
     /\ finders[j].empty /\ finders[k].empty)
    => LET m == Matches(FinderCollection(finders[j]), finders[j].name) IN
       /\ finders[j].ref # finders[k].ref
       /\ {finders[j].ref, finders[k].ref} \subseteq m
       /\ Cardinality(m) >= 2

\* both calls found no artist "The Band" and both resolved
C31_Witness ==
  /\ \A k \in Finders :
       /\ finders[k].pc = "done" /\ finders[k].result = "resolved"
       /\ finders[k].col = "artists" /\ finders[k].name = "The Band"
       /\ finders[k].before = {} /\ finders[k].empty /\ finders[k].added = 1
  /\ Cardinality(Matches(artists, "The Band")) = 2

\* C33: back-off is linear and bounded: with base delay 1000 ms a call waits
\* 1000 ms before its second attempt and 2000 ms before its third; it waits
\* only after an attempt failed with a transient error, and not after the
\* last attempt nor before a non-transient error is propagated.
C33_LinearBoundedBackoff ==
  \A c \in CallIds :
    LET x == mgr.ex[c] IN
    /\ Len(x.waits) < maxRetries
    /\ \A i \in 1..Len(x.waits) : x.waits[i] = 1000 * i
    /\ Len(x.waits) = (IF x.pc = "backoff" THEN x.attempt ELSE x.attempt - 1)
    /\ x.waits # <<>> => x.op.out \in Transient
    /\ x.pc = "backoff" => x.error \in Transient
    /\ x.pc = "rejected" /\ x.error \notin Transient => x.waits = <<>>
    /\ x.pc = "rejected" /\ x.invocations = maxRetries /\ x.allConnected
         => x.waits = <<1000, 2000>>

\* a call whose three attempts failed with a transient error
C33_Witness ==
  \E c \in TopCalls :
    /\ mgr.ex[c].pc = "rejected" /\ mgr.ex[c].invocations = maxRetries
    /\ mgr.ex[c].allConnected /\ mgr.ex[c].waits = <<1000, 2000>>

\* C34: within one logConcert call against a store that fails every request
\* with a transient error, the artist lookup query is issued at most 3 times
\* before the failure surfaces.
C34_LookupsBoundedByRetries ==
  log.pc # "idle" /\ log.outage => log.lookups <= maxRetries

\* C35: the replay invokes a queued operation exactly once, whatever it
\* throws: a call that was queued and has settled was run by the replay once,
\* awaited no delay after it, and resolved or rejected with the outcome of its
\* operation; and when a replayed operation fails while the state is connected
\* and the queue is not empty, the replay goes on with the head of the queue.
C35_ReplayOnceAndGoesOn ==
  /\ [](\A c \in CallIds :
          LET x == mgr.ex[c] IN
          /\ x.replayed <= 1
          /\ x.pc = "backoff" => x.replayed = 0
          /\ x.pc = "replaying" => x.replayed = 1
          /\ x.pc \in SettledPcs /\ ~x.allConnected
               => /\ x.replayed = 1
                  /\ x.invocations = x.attempt
                  /\ Len(x.waits) = x.attempt - 1
                  /\ x.error = x.op.out)
  /\ [][\A c \in CallIds :
          (/\ mgr.ex[c].pc = "replaying" /\ mgr'.ex[c].pc = "rejected"
           /\ mgr.retryQueue # <<>> /\ connectionState = "connected")
          => /\ mgr'.retryQueue = Tail(mgr.retryQueue)
             /\ mgr'.ex[Head(mgr.retryQueue).id].replayed = 1
             /\ mgr'.ex[Head(mgr.retryQueue).id].invocations
                  = mgr.ex[Head(mgr.retryQueue).id].invocations + 1]_vars

\* two replayed calls have rejected, the first with a transient error, and
\* the operation of each was invoked once
C35_Witness ==
  /\ \A c \in TopCalls :
       /\ mgr.ex[c].pc = "rejected" /\ ~mgr.ex[c].allConnected
       /\ mgr.ex[c].replayed = 1 /\ mgr.ex[c].invocations = 1
  /\ mgr.ex[1].error = "unavailable"
  /\ mgr.ex[1].op.kind = "leaf"

\* C36: on each state change every listener registered when the change
\* happens (none is unsubscribed by another before its turn: a listener only
\* calls its own unsubscribe function) is invoked exactly once per
\* registration with the new state, also when another listener unsubscribes
\* itself during the notification; and only registered listeners are invoked.
C36_ListenersInvokedOnce ==
  /\ \A l \in Listeners :
       Cardinality({i \in 1..Len(notice.calls) :
                      notice.calls[i].listener = l /\ notice.calls[i].state = notice.state})
         = Cardinality({i \in 1..Len(notice.before) : notice.before[i] = l})
  /\ \A i \in 1..Len(notice.calls) : notice.calls[i].listener \in Range(notice.before)

\* C37: the likesCount that likeReview returns is the count its own
\* transaction committed: the count the transaction read plus 1 for 'liked',
\* and the larger of 0 and that count minus 1 for 'unliked', also when other
\* calls toggle likes of the review concurrently.
C37_ReturnedCountIsCommitted ==
  [][\A c \in Slots :
       ( /\ call[c].pc = "postRead"
         /\ call'[c].pc = "done"
         /\ call'[c].result \in {"liked", "unliked"} )
       => call'[c].count = (IF call[c].liked THEN UnlikeCount(call[c].cur)
                            ELSE LikeCount(call[c].cur))]_vars

\* C38: likeReview and addComment on a review id that does not exist fail
\* with an error and create no likedBy record, no comment and no review
\* document; and a call whose transaction fails writes nothing: the store
\* changes only in the step in which a transaction on an existing review
\* commits, and then only the records of that review.
C38_FailedCallsWriteNothing ==
  /\ [](\A r \in DocIds :
          ~reviews[r].exists
          => /\ likedBy[r] = {} /\ comments[r] = <<>>
             /\ reviews[r].likesCount = 0 /\ reviews[r].commentsCount = 0
             /\ \A c \in Slots : call[c].pc \in {"txnCommit", "postRead"}
                                   => call[c].reviewId # r)
  /\ [][\A r \in DocIds : reviews'[r].exists = reviews[r].exists]_vars
  /\ [][\A c \in Slots :
          (call[c].pc # "done" /\ call'[c].pc = "done"
           /\ call'[c].result \notin {"liked", "unliked", "success"})
          => UNCHANGED storeVars]_vars
  /\ [][storeVars' # storeVars
        => \E c \in Slots :
             /\ call[c].pc = "txnCommit"
             /\ call'[c].pc \in {"postRead", "done"}
             /\ call'[c].result # "internal"
             /\ reviews[call[c].reviewId].exists
             /\ \A r \in DocIds \ {call[c].reviewId} :
                  /\ reviews'[r] = reviews[r] /\ likedBy'[r] = likedBy[r]
                  /\ comments'[r] = comments[r]]_vars

\* a likeReview call and an addComment call on the missing review r2 have
\* both failed
C38_Witness ==
  /\ \E c \in Slots : /\ call[c].pc = "done" /\ call[c].result = "internal"
                      /\ call[c].kind = "like" /\ call[c].reviewId = "r2"
  /\ \E c \in Slots : /\ call[c].pc = "done" /\ call[c].result = "internal"
                      /\ call[c].kind = "comment" /\ call[c].reviewId = "r2"
  /\ ~reviews["r2"].exists

\* C39: in the feed that getFeedActivities returns, each item whose concert
\* was created by logConcert and whose artist and venue records exist carries
\* the names of those records, and its concertName is
\* '<artistName> at <venueName>'.
C39_FeedJoinsNames ==
  feed.pc = "done"
  => \A i \in 1..Len(feed.result) :
       LET item == feed.result[i]
           concert == concerts[item.concertId]
       IN (concert.artistRef \in 1..Len(artists) /\ concert.venueRef \in 1..Len(venues))
          => /\ item.artistName = artists[concert.artistRef].name
             /\ item.venueName = venues[concert.venueRef].name
             /\ item.concertName = <<artists[concert.artistRef].name, " at ",
                                     venues[concert.venueRef].name>>

\* String.prototype.startsWith
StartsWith(str, prefix) ==
  Len(prefix) <= Len(str) /\ SubSeq(str, 1, Len(prefix)) = prefix

\* the concerts that logConcert created (they carry no artistName) with an
\* artist name or a venue name that starts with p
LoggedWithPrefix(p) ==
  {i \in 1..Len(concerts) :
     /\ "artistName" \notin DOMAIN concerts[i]
     /\ \/ StartsWith(concerts[i].logged.artistName, p)
        \/ StartsWith(concerts[i].logged.venueName, p)}

ArtistsWithPrefix(p) == {i \in 1..Len(artists) : StartsWith(artists[i].name, p)}

\* C40: searchConcerts(p) returns every concert that logConcert created with
\* an artist name or a venue name that starts with p, when fewer than 10
\* concerts match; and searchArtists(p) returns every artist whose name starts
\* with p, when fewer than 10 match.
C40_SearchFindsByPrefix ==
  (search.pc = "done" /\ ~search.failed)
  => LET found == {search.result[k].id : k \in 1..Len(search.result)} IN
     /\ search.kind = "concerts"
          => LET m == LoggedWithPrefix(search.searchTerm) IN
             Cardinality(m) < SearchLimit => m \subseteq found
     /\ search.kind = "artists"
          => LET m == ArtistsWithPrefix(search.searchTerm) IN
             Cardinality(m) < SearchLimit => m \subseteq found
====
